---- MODULE Spec2Model ----
(***************************************************************************)
(* A model of the execution core of langchain-go: the agent control loop   *)
(* (agents.AgentExecutor.Invoke), the composition primitives of package    *)
(* runnable (Sequence, Parallel, Branch, Lambda and their Batch) and the   *)
(* pull iterator of streams (core.StreamIterator), the callback dispatcher *)
(* (callbacks.Manager) and the Batch and Stream of the Copilot chat model.  *)
(*                                                                         *)
(* Go strings are modelled as sequences of tokens, so that formatting      *)
(* (fmt.Sprintf, strings.Join, err.Error) is concatenation and "contains"  *)
(* is membership of a token.  Go errors are records; the nil error is      *)
(* NoErr.                                                                  *)
(***************************************************************************)
EXTENDS Integers, Sequences, FiniteSets, TLC

\* ------------------------------------------------------------------ bounds
\* WithMaxIterations(n) is drawn from 0..MaxIter.
MaxIter == 3
\* cfg.Callbacks holds 0..MaxHandlers handlers.
MaxHandlers == 2
\* Sequence inputs are drawn from 0..MaxInput.
MaxInput == 2
\* Pipe(runnables...) is given 1..MaxPipe runnables.
MaxPipe == 3
\* A Parallel has 1..MaxBranches entries.
MaxBranches == 3
\* A Branch has 0..MaxConds conditions.
MaxConds == 2
\* Batch is given 0..MaxBatch inputs.
MaxBatch == 3
\* A producer emits 0..MaxChunks chunks before it closes the channel.
MaxChunks == 2
\* The channel of a stream has capacity 1..MaxCap.
MaxCap == 2
\* The consumer calls Next at most MaxNext times and Close at most MaxClose times.
MaxNext == 4
MaxClose == 2
\* Managers are derived down to depth MaxDepth (the root is at depth 1).
MaxDepth == 3
\* At most MaxDispatch events are dispatched on a chain of Managers.
MaxDispatch == 1
\* The Copilot chat model's Batch is given 0..MaxItems inputs.
MaxItems == 2
\* A Copilot session emits 0..MaxEvents events in a turn.
MaxEvents == 3

\* NewAgentExecutor: maxIterations: 15.
DefaultMaxIterations == 15

\* copilot.DefaultOptions: MaxConcurrency: 5, and the fallback of Batch.
DefaultMaxConcurrency == 5

\* ------------------------------------------------------------ text, errors
NoErr == [kind |-> "nil"]

\* errors.New(msg) as returned by a planner, a tool or a step.
NewError(msg) == [kind |-> "error", msg |-> msg]

\* fmt.Errorf(prefix + "%w", err): the message is prefixed, the cause is kept.
Wrap(prefix, err) == [kind |-> "wrapped", msg |-> prefix \o err.msg, cause |-> err]

\* ctx.Err() of a canceled context.
Canceled == [kind |-> "canceled", msg |-> <<"context canceled">>]

Digit(d) ==
    CASE d = 0 -> "0" [] d = 1 -> "1" [] d = 2 -> "2" [] d = 3 -> "3" [] d = 4 -> "4"
      [] d = 5 -> "5" [] d = 6 -> "6" [] d = 7 -> "7" [] d = 8 -> "8" [] d = 9 -> "9"

\* fmt.Sprintf("%d", n): the decimal digits of n, a minus sign first when n < 0.
RECURSIVE Itoa(_)
Itoa(n) ==
    IF n < 0 THEN <<"-">> \o Itoa(0 - n)
    ELSE IF n < 10 THEN <<Digit(n)>>
    ELSE Itoa(n \div 10) \o <<Digit(n % 10)>>

\* fmt.Sprintf("%q", s): the string between double quotes.
Quote(s) == <<"\"">> \o s \o <<"\"">>

\* strings.Join(elems, sep).
RECURSIVE Join(_, _)
Join(elems, sep) ==
    IF Len(elems) = 0 THEN <<>>
    ELSE IF Len(elems) = 1 THEN Head(elems)
    ELSE Head(elems) \o sep \o Join(Tail(elems), sep)

Contains(text, sub) ==
    \E i \in 1..(Len(text) - Len(sub) + 1) : SubSeq(text, i, i + Len(sub) - 1) = sub

IsPrefix(s, t) == Len(s) <= Len(t) /\ SubSeq(t, 1, Len(s)) = s

\* A Go map; the nil map is NilMap.
NilMap == [isNil |-> TRUE]
Map(m) == [isNil |-> FALSE, m |-> m]

\* ---------------------------------------------------- the agent's collaborators
\* The registered tools, in registration order (AgentExecutor.tools).
ToolNames == << <<"calculator">>, <<"search">> >>

\* Tool.Run of the registered tools: the calculator fails on a division by
\* zero, the search tool always answers.
ToolRun(name, input) ==
    IF name = <<"calculator">>
    THEN IF input = <<"1/0">>
         THEN [out |-> <<>>, err |-> NewError(<<"division by zero">>)]
         ELSE [out |-> <<"42">>, err |-> NoErr]
    ELSE [out |-> <<"result for ">> \o input, err |-> NoErr]

ActCalc == [tool |-> <<"calculator">>, input |-> <<"2+2">>, log |-> <<"compute">>]
ActDiv == [tool |-> <<"calculator">>, input |-> <<"1/0">>, log |-> <<"divide">>]
ActSearch == [tool |-> <<"search">>, input |-> <<"go">>, log |-> <<"look up">>]
\* Not registered: tool names are matched exactly.
ActUnknown == [tool |-> <<"Calculator">>, input |-> <<"2+2">>, log |-> <<"compute">>]

\* The action lists a planner may return (AgentOutput.Actions).
ActionLists == {<<ActCalc>>, <<ActUnknown, ActDiv>>, <<ActDiv, ActSearch>>}

\* The Finish values a planner may return (AgentOutput.Finish).
Finishes ==
    {[rv |-> [output |-> <<"The answer is 42">>], log |-> <<"done">>],
     [rv |-> [output |-> <<"unknown">>, confidence |-> <<"low">>], log |-> <<"gave up">>]}

PlanErrors == {NewError(<<"could not parse output">>)}

TheInput == [input |-> <<"what is 2+2">>]

\* The planners (Agent implementations): "scripted" may return anything on any
\* call, "looping" always asks for the calculator, "failing" always fails.
PlannerActions(p) ==
    IF p = "scripted" THEN ActionLists ELSE IF p = "looping" THEN {<<ActCalc>>} ELSE {}

PlannerFinishes(p) == IF p = "scripted" THEN Finishes ELSE {}

PlannerErrors(p) == IF p \in {"scripted", "failing"} THEN PlanErrors ELSE {}

\* ===================================================== runnable.Sequence
\* A boxed Go value (any): its dynamic type and its value.
IntVal(n) == [t |-> "int", v |-> n]
StrVal(s) == [t |-> "string", v |-> s]

\* The zero value of a type (var zero O).
Zero(t) ==
    CASE t = "int" -> IntVal(0)
      [] t = "string" -> StrVal(<<>>)
      [] OTHER -> [t |-> "nil", v |-> 0]

\* The units the pipelines are built from: core.Runnable[I, O] values with a
\* name and a function, as the tests' mockRunnable; "spell" is a unit whose
\* Stream emits its output piece by piece, as a chat model's does.
Units == {"add1", "double", "toString", "length", "positive", "reject", "spell"}

InType(u) == IF u = "length" THEN "string" ELSE "int"

OutType(u) == IF u \in {"toString", "spell"} THEN "string" ELSE "int"

\* mockRunnable.GetName.
UnitName(u) == <<u>>

\* mockRunnable.Invoke: m.fn(ctx, input); a failing fn returns the zero value
\* and its error.
UnitInvoke(u, x) ==
    CASE u = "add1" -> [out |-> IntVal(x.v + 1), err |-> NoErr]
      [] u = "double" -> [out |-> IntVal(x.v * 2), err |-> NoErr]
      [] u = "toString" -> [out |-> StrVal(Itoa(x.v)), err |-> NoErr]
      [] u = "length" -> [out |-> IntVal(Len(x.v)), err |-> NoErr]
      [] u = "positive" ->
            IF x.v > 0 THEN [out |-> x, err |-> NoErr]
            ELSE [out |-> Zero("int"), err |-> NewError(<<"not positive">>)]
      [] u = "reject" -> [out |-> Zero("int"), err |-> NewError(<<"rejected">>)]
      [] u = "spell" -> [out |-> StrVal(Itoa(x.v)), err |-> NoErr]

\* The chunks a unit's own Stream emits, when it does not fail.  mockRunnable
\* and Lambda: one chunk holding the result of Invoke.  "spell": one chunk for
\* each piece of what its Invoke returns.
UnitStream(u, x) ==
    IF u = "spell"
    THEN [k \in 1..Len(Itoa(x.v)) |-> StrVal(<<Itoa(x.v)[k]>>)]
    ELSE <<UnitInvoke(u, x).out>>

\* A unit that panicked instead of returning.
Panic == [kind |-> "panic"]

\* A step's closure called with an input: Pipe2, Pipe3 and Pipe4 hand a unit
\* the type it takes; Pipe hands r.Invoke whatever the step before returned,
\* and what a unit does with a value of another type is its own affair: it
\* returns an error of its own, or its type assertion panics.
StepInvoke(u, x) ==
    IF x.t = InType(u) THEN {UnitInvoke(u, x)}
    ELSE {[out |-> Zero("any"), err |-> NewError(<<"unexpected input type ", x.t>>)],
          [out |-> Zero("any"), err |-> Panic]}

\* A step of a Sequence: the unit's name and the closure that invokes it.
Step(u) == [name |-> UnitName(u), unit |-> u]

\* Pipe2, Pipe3, Pipe4: the steps in argument order.  The type parameters make
\* the compiler reject units whose types do not chain.
Pipe2(first, second) == <<Step(first), Step(second)>>

Pipe3(first, second, third) == <<Step(first), Step(second), Step(third)>>

Pipe4(first, second, third, fourth) ==
    <<Step(first), Step(second), Step(third), Step(fourth)>>

Chains(a, b) == OutType(a) = InType(b)

\* The argument lists the compiler accepts for Pipe2, Pipe3 and Pipe4.
UnitLists ==
    {q \in Units \X Units : Chains(q[1], q[2])}
    \cup {q \in Units \X Units \X Units : Chains(q[1], q[2]) /\ Chains(q[2], q[3])}
    \cup {q \in Units \X Units \X Units \X Units :
             Chains(q[1], q[2]) /\ Chains(q[2], q[3]) /\ Chains(q[3], q[4])}

\* Pipe(runnables...): one step for each runnable, in argument order; nothing
\* is checked about their types.
Pipe(runnables) == [i \in 1..Len(runnables) |-> Step(runnables[i])]

\* The argument lists Pipe may be given.
PipeLists == UNION {[1..n -> Units] : n \in 1..MaxPipe}

\* The Sequence built from an argument list by a typed builder (of the list's
\* arity) or by Pipe.
Build(us) ==
    CASE Len(us) = 2 -> Pipe2(us[1], us[2])
      [] Len(us) = 3 -> Pipe3(us[1], us[2], us[3])
      [] Len(us) = 4 -> Pipe4(us[1], us[2], us[3], us[4])

\* The inputs of a pipeline whose first unit takes type t.
Inputs(t) ==
    IF t = "int" THEN {IntVal(n) : n \in 0..MaxInput}
    ELSE {StrVal(Itoa(n)) : n \in {0, 10 * MaxInput, 100 + MaxInput}}

\* The step is numbered from one.
StepErrorOneBased(i, name, e) ==
    Wrap(<<"step ">> \o Itoa(i + 1) \o <<" (">> \o name \o <<"): ">>, e)

\* fmt.Errorf("step %d (%s): %w", i, st.name, err)
StepError(i, name, e) == Wrap(<<"step ">> \o Itoa(i) \o <<" (">> \o name \o <<"): ">>, e)

\* fmt.Errorf("final step output type mismatch: got %T, want %T", current, zero)
MismatchError(got, want) ==
    NewError(<<"final step output type mismatch: got ", got, ", want ", want>>)

\* The zero value is returned in place of the output.
FinalOutputZero(cur, want) == [out |-> Zero(want), err |-> NoErr]

\* After the loop: output, ok := current.(O).
FinalOutput(cur, want) ==
    IF (IF want = "any" THEN cur.t # "nil" ELSE cur.t = want)
    THEN [out |-> cur, err |-> NoErr]
    ELSE [out |-> Zero(want), err |-> MismatchError(cur.t, want)]

\* A *StreamIterator as a function returns it: nil, or the chunks put on its
\* channel before the channel was closed.
NilIter == [isNil |-> TRUE]
Iter(chunks) == [isNil |-> FALSE, chunks |-> chunks]

VARIABLES
    seqBuilder,  \* "typed" (Pipe2, Pipe3, Pipe4) or "Pipe"
    seqUnits,    \* the units given to the builder, in argument order
    seqSteps,    \* Sequence.steps
    seqOp,       \* the method called: "Invoke" or "Stream"
    seqInput,    \* the input given to it
    seqPc,       \* where Sequence.Invoke is
    seqI,        \* the loop index i of Invoke
    current,     \* the local current
    seqCalls,    \* the calls made to the steps so far: step index, the method
                 \* of the unit that was called, input and what it returned
    seqOut, seqErr, \* what Invoke returned
    seqStream    \* the iterator Stream returned

seqVars ==
    <<seqBuilder, seqUnits, seqSteps, seqOp, seqInput, seqPc, seqI, current, seqCalls,
      seqOut, seqErr, seqStream>>

\* ===================================================== runnable.Parallel
\* The names entries are registered under.  NewParallel takes them as the keys
\* of a Go map, so they are distinct; p.keys holds them in the order the map
\* was ranged over, which the model fixes: the units of the entries are
\* arbitrary, so every assignment of units to positions is covered.
KeyNames == <<"a", "b", "c", "d", "e">>

\* The units of the entries and the inputs Invoke is called with: "positive"
\* fails on 0.
ParUnits == {"add1", "positive"}

ParInputs == {IntVal(0), IntVal(2)}

\* The empty Go map (make(map[string]any)).
EmptyMap == [k \in {} |-> 0]

\* The map is replaced by one that holds the new entry alone.
MapSetAlone(m, key, v) == [k \in {key} |-> v]

\* m[key] = v.
MapSet(m, key, v) == [k \in DOMAIN m \cup {key} |-> IF k = key THEN v ELSE m[k]]

\* The semaphore always has one slot per entry.
SemCapAll(n, max) == n

\* sem := make(chan struct{}, len(p.branches)), or of cfg.MaxConcurrency when
\* that is positive: the capacity of the semaphore channel.
SemCap(n, max) == IF max > 0 THEN max ELSE n

\* fmt.Errorf("parallel branch %q: %w", k, err)
BranchError(k, e) == Wrap(<<"parallel branch ">> \o Quote(<<k>>) \o <<": ">>, e)

\* The results gathered so far are returned beside the error.
ParallelReturnPartial(res, es) ==
    IF DOMAIN es # {}
    THEN {[out |-> Map(res), err |-> BranchError(k, es[k])] : k \in DOMAIN es}
    ELSE {[out |-> Map(res), err |-> NoErr]}

\* After wg.Wait(): with len(errs) > 0 the first error the range over errs
\* yields (Go ranges over a map in no fixed order) and a nil map, otherwise
\* the results.
ParallelReturn(res, es) ==
    IF DOMAIN es # {}
    THEN {[out |-> NilMap, err |-> BranchError(k, es[k])] : k \in DOMAIN es}
    ELSE {[out |-> Map(res), err |-> NoErr]}

VARIABLES
    parKeys,      \* Parallel.keys
    parBranches,  \* Parallel.branches: the unit registered under each name
    parInput,     \* the input given to Invoke
    parMax,       \* cfg.MaxConcurrency (0: not set)
    parPc,        \* where Invoke is: "loop" (spawning, then wg.Wait) or "done"
    parI,         \* how many keys the loop over p.keys has passed
    taskPc,       \* where the goroutine of each key is
    taskRet,      \* the locals result, err of each goroutine
    sem,          \* how many values the channel sem holds
    wg,           \* the counter of the WaitGroup
    results, errs, \* the maps results and errs (guarded by mu)
    parCancel,    \* ctx: "no" while it is live, else when it was canceled:
                  \* "spawning" (before wg.Wait) or "join" (Invoke was in
                  \* wg.Wait with goroutines still running)
    parOut, parErr \* what Invoke returned

parVars ==
    <<parKeys, parBranches, parInput, parMax, parPc, parI, taskPc, taskRet, sem, wg,
      results, errs, parCancel, parOut, parErr>>

\* ======================================================= runnable.Branch
\* The predicates of the conditions (BranchCondition.Condition), as the tests
\* write them, and one that holds of every second input.
Conds == {"gt0", "lt0", "gt100", "even"}

CondHolds(c, x) ==
    CASE c = "gt0" -> x.v > 0
      [] c = "lt0" -> x.v < 0
      [] c = "gt100" -> x.v > 100
      [] c = "even" -> x.v % 2 = 0

\* The units of a Branch[int, int] (BranchCondition.Runnable, defaultBranch).
BranchUnits == {"add1", "double", "reject"}

\* defaultBranch == nil.
NoDefault == "nil"

BranchInputs == {IntVal(n) : n \in (0 - 1)..MaxInput}

\* The conditions a Branch may be built with (NewBranch).
BranchConds ==
    UNION {[1..n -> [cond : Conds, unit : BranchUnits]] : n \in 0..MaxConds}

\* fmt.Errorf("no branch condition matched and no default branch provided")
NoBranchError ==
    NewError(<<"no branch condition matched and no default branch provided">>)

\* Every condition is evaluated and the last one that holds is taken.
RECURSIVE ScanLast(_, _, _)
ScanLast(conds, x, i) ==
    IF i > Len(conds) THEN [evals |-> <<>>, hit |-> 0]
    ELSE LET r == ScanLast(conds, x, i + 1)
         IN [evals |-> <<i>> \o r.evals,
             hit |-> IF r.hit = 0 /\ CondHolds(conds[i].cond, x) THEN i ELSE r.hit]

\* The loop over b.conditions from the i-th on: the conditions it evaluates,
\* in order, and the index of the one it returns at (0: none held).
RECURSIVE Scan(_, _, _)
Scan(conds, x, i) ==
    IF i > Len(conds) THEN [evals |-> <<>>, hit |-> 0]
    ELSE IF CondHolds(conds[i].cond, x) THEN [evals |-> <<i>>, hit |-> i]
    ELSE LET r == Scan(conds, x, i + 1)
         IN [evals |-> <<i>> \o r.evals, hit |-> r.hit]

\* Branch.Invoke: what it returns, the conditions it evaluated and the units
\* it invoked, in order.
BranchInvoke(conds, def, x) ==
    LET s == Scan(conds, x, 1)
        u == IF s.hit > 0 THEN conds[s.hit].unit ELSE def
    IN IF u # NoDefault
       THEN [out |-> UnitInvoke(u, x).out, err |-> UnitInvoke(u, x).err,
             evals |-> s.evals, invoked |-> <<u>>]
       ELSE [out |-> Zero("int"), err |-> NoBranchError,
             evals |-> s.evals, invoked |-> <<>>]

VARIABLES
    brConds,     \* Branch.conditions
    brDefault,   \* Branch.defaultBranch
    brInput,     \* the input given to Invoke
    brPc,        \* "call" before Invoke, "done" after
    brEvals,     \* the conditions Invoke evaluated, in order
    brInvoked,   \* the units Invoke invoked, in order
    brOut, brErr \* what Invoke returned

brVars == <<brConds, brDefault, brInput, brPc, brEvals, brInvoked, brOut, brErr>>

\* ================================================================ Batch
\* Sequence.Invoke as a function of the steps, the input and the type O.
RECURSIVE SequenceRun(_, _, _, _)
SequenceRun(ss, cur, i, want) ==
    IF i > Len(ss) THEN FinalOutput(cur, want)
    ELSE LET r == UnitInvoke(ss[i].unit, cur)
         IN IF r.err # NoErr
            THEN [out |-> Zero(want), err |-> StepError(i - 1, ss[i].name, r.err)]
            ELSE SequenceRun(ss, r.out, i + 1, want)

SequenceInvoke(ss, x) == SequenceRun(ss, x, 1, OutType(ss[Len(ss)].unit))

\* Lambda.Invoke: l.fn(ctx, input).
LambdaInvoke(fn, x) == UnitInvoke(fn, x)

\* The runnables Batch is called on: a Lambda around a function, a Sequence
\* built by Pipe2, a Branch.
LambdaOf(fn) ==
    [kind |-> "Lambda", fn |-> fn, units |-> <<>>, conds |-> <<>>, def |-> NoDefault]
SequenceOf(us) ==
    [kind |-> "Sequence", fn |-> "none", units |-> us, conds |-> <<>>, def |-> NoDefault]
BranchOf(conds, def) ==
    [kind |-> "Branch", fn |-> "none", units |-> <<>>, conds |-> conds, def |-> def]

BatchTargets ==
    {LambdaOf(fn) : fn \in {"double", "positive", "reject"}}
    \cup {SequenceOf(us) : us \in {<<"add1", "positive">>, <<"positive", "toString">>,
                                    <<"double", "add1">>}}
    \cup {BranchOf(<<[cond |-> "gt0", unit |-> "double"], [cond |-> "lt0", unit |-> "reject"]>>,
                   "add1"),
          BranchOf(<<[cond |-> "even", unit |-> "double"], [cond |-> "gt0", unit |-> "add1"]>>,
                   NoDefault)}

\* The type parameter O of the runnable.
TargetOutType(t) ==
    IF t.kind = "Lambda" THEN OutType(t.fn)
    ELSE IF t.kind = "Sequence" THEN OutType(t.units[Len(t.units)])
    ELSE "int"

\* What the loop of Batch calls for one input: Sequence.Batch calls s.Invoke,
\* Branch.Batch calls b.Invoke, Lambda.Batch calls l.fn.
BatchCall(t, x) ==
    CASE t.kind = "Lambda" -> [out |-> UnitInvoke(t.fn, x).out, err |-> UnitInvoke(t.fn, x).err]
      [] t.kind = "Sequence" -> SequenceInvoke(Build(t.units), x)
      [] t.kind = "Branch" ->
            [out |-> BranchInvoke(t.conds, t.def, x).out,
             err |-> BranchInvoke(t.conds, t.def, x).err]

\* The error Batch returns for item i: Sequence.Batch and Branch.Batch wrap it,
\* fmt.Errorf("batch item %d: %w", i, err); Lambda.Batch returns it as it is.
BatchError(t, i, e) ==
    IF t.kind = "Lambda" THEN e ELSE Wrap(<<"batch item ">> \o Itoa(i) \o <<": ">>, e)

\* A Go slice; the nil slice is NilSlice.
NilSlice == [isNil |-> TRUE]
Slice(q) == [isNil |-> FALSE, elems |-> q]

\* make([]O, n).
MakeSlice(n, t) == [i \in 1..n |-> Zero(t)]

\* The result is stored in the first slot.
SliceSetFirst(rs, i, v) == [rs EXCEPT ![1] = v]

\* results[i] = result, for the 0-based index i.
SliceSet(rs, i, v) == [rs EXCEPT ![i + 1] = v]

VARIABLES
    batTarget,   \* the runnable Batch is called on
    batInputs,   \* inputs
    batPc,       \* where Batch is
    batI,        \* the loop index i
    batResults,  \* the local results
    batCalls,    \* the calls the loop made: index and input
    batOut, batErr \* what Batch returned

batVars == <<batTarget, batInputs, batPc, batI, batResults, batCalls, batOut, batErr>>

\* ================================================== core.StreamIterator
\* StreamChunk[T]: the i-th chunk of a producer holds the value i or an error.
ValChunk(i) == [Value |-> IntVal(i), Err |-> NoErr]
ErrChunk(i) == [Value |-> Zero("int"), Err |-> NewError(<<"stream error ">> \o Itoa(i))]

\* The producers.  "closing": a goroutine that sends its chunks and closes the
\* channel when it returns, and returns right after sending an error chunk
\* (the OpenAI chat model's streamResponse, LLMChain.Stream).  "session": the
\* Copilot chat model, whose event handler sends a chunk for every delta,
\* message and error event of the session and whose channel is closed when
\* the session goes idle: chunks may follow an error chunk.
ProducerKinds == {"closing", "session"}

\* The chunks a producer of a kind may emit before the channel is closed.
Scripts(kind) ==
    {q \in UNION {[1..n -> {"value", "error"}] : n \in 0..MaxChunks} :
        kind = "closing" => \A i \in 1..(Len(q) - 1) : q[i] = "value"}

ChunkOf(q, i) == IF q[i] = "value" THEN ValChunk(i) ELSE ErrChunk(i)

\* What Next returns: (value, ok, err).
Exhausted == [val |-> Zero("int"), ok |-> FALSE, err |-> NoErr]

\* Next for a chunk received from the channel.
NextResult(chunk) ==
    IF chunk.Err # NoErr
    THEN [val |-> Zero("int"), ok |-> FALSE, err |-> chunk.Err]
    ELSE [val |-> chunk.Value, ok |-> TRUE, err |-> NoErr]

\* The newest chunk is received first.
RecvNewest(q) == [chunk |-> q[Len(q)], rest |-> SubSeq(q, 1, Len(q) - 1)]

\* <-s.ch on a channel that holds chunks: the oldest one.
Recv(q) == [chunk |-> Head(q), rest |-> Tail(q)]

\* Close does its work on every call.
CloseAlways(isClosed) == TRUE

\* Close: if !s.closed.
CloseNeeded(isClosed) == ~isClosed

VARIABLES
    stKind,      \* the kind of producer
    stScript,    \* the chunks the producer emits, in order
    stCap,       \* the capacity of the channel
    stCh,        \* the chunks the channel holds
    stChClosed,  \* the producer has closed the channel
    stSent,      \* how many chunks the producer has sent
    closed,      \* StreamIterator.closed
    doneCloses,  \* how many times close(s.done) was executed
    drainPc,     \* the goroutine Close starts: "none", "run", "exit"
    nextPc,      \* the consumer's Next: "idle", or "recv" at chunk, ok := <-s.ch
    nextGhost,   \* for the Next call in progress: whether Close had returned
                 \* and how many chunks the channel held when it started
    stResults,   \* what the Next calls returned, in order, each with the
                 \* nextGhost of its call
    nextStarts,  \* how many Next calls were started
    closeCalls,  \* how many Close calls were made
    sentAtClose  \* how many chunks the producer had sent when Close first returned

stVars ==
    <<stKind, stScript, stCap, stCh, stChClosed, stSent, closed, doneCloses, drainPc,
      nextPc, nextGhost, stResults, nextStarts, closeCalls, sentAtClose>>

\* ==================================================== callbacks.Manager
\* The handlers a program registers; a handler list may name one twice.
HandlerNames == {"tracer", "logger"}

HandlerLists == UNION {[1..n -> HandlerNames] : n \in 0..MaxHandlers}

\* The tags GetChild is given; "" is no tag.
Tags == {"", "tool"}

\* The events a Manager dispatches.
Events == {"chain_start", "chain_end", "tool_start"}

\* NewManager(handlers...): the other fields are left at their zero values.
NewManager(handlers) ==
    [handlers |-> handlers, inheritableHandlers |-> <<>>, tags |-> <<>>]

\* m.inheritableHandlers = append(m.inheritableHandlers, handlers...).
WithInheritableHandlers(m, handlers) ==
    [m EXCEPT !.inheritableHandlers = @ \o handlers]

\* GetChild: the child's handlers are a copy of the parent's
\* inheritableHandlers; its own inheritableHandlers are not set.
GetChild(m, tag) ==
    [handlers |-> m.inheritableHandlers,
     inheritableHandlers |-> <<>>,
     tags |-> IF tag # "" THEN <<tag>> ELSE <<>>]

\* OnChainStart and every other On... method: for _, h := range m.handlers.
ManagerDispatch(m, ev) == [i \in 1..Len(m.handlers) |-> [h |-> m.handlers[i], ev |-> ev]]

VARIABLES
    mgrChain,  \* a root Manager and the Managers derived from it, each from the
               \* one before: [m, designated, registered], where designated
               \* is the inheritable handler list of the root when its child
               \* was derived, and registered tells whether
               \* WithInheritableHandlers was called on this derived Manager
    mgrLog     \* the events dispatched: [depth, ev, calls]

mgrVars == <<mgrChain, mgrLog>>

\* ================================================ copilot.ChatModel.Batch
\* The inputs of a Batch call, one prompt each; the model's Invoke fails on
\* "bad".
Prompts == {"a", "b", "bad"}

\* A *core.AIMessage; the nil pointer is NilMessage.
NilMessage == [t |-> "nil", v |-> <<>>]
AIMessage(content) == [t |-> "AIMessage", v |-> content]

\* result, err := m.Invoke(ctx, msgs, opts...).
ChatInvoke(msgs) ==
    IF msgs = "bad"
    THEN [out |-> NilMessage, err |-> NewError(<<"copilot: send failed">>)]
    ELSE [out |-> AIMessage(<<"reply to ", msgs>>), err |-> NoErr]

\* maxConc := m.opts.MaxConcurrency; if maxConc <= 0 { maxConc = 5 }: the
\* capacity of the semaphore channel.
MaxConc(optsMaxConcurrency) ==
    IF optsMaxConcurrency <= 0 THEN DefaultMaxConcurrency ELSE optsMaxConcurrency

\* fmt.Errorf("batch item %d: %w", idx, err), for the 0-based index idx.
ItemError(idx, e) == Wrap(<<"batch item ">> \o Itoa(idx) \o <<": ">>, e)

\* The last error of errs is returned.
LastError(es) ==
    IF \E i \in 1..Len(es) : es[i] # NoErr
    THEN es[CHOOSE i \in 1..Len(es) :
                es[i] # NoErr /\ \A j \in (i + 1)..Len(es) : es[j] = NoErr]
    ELSE NoErr

\* for _, err := range errs { if err != nil { return nil, err } }.
FirstError(es) ==
    IF \E i \in 1..Len(es) : es[i] # NoErr
    THEN es[CHOOSE i \in 1..Len(es) :
                es[i] # NoErr /\ \A j \in 1..(i - 1) : es[j] = NoErr]
    ELSE NoErr

VARIABLES
    cbOptMax,    \* m.opts.MaxConcurrency
    cbCfgMax,    \* MaxConcurrency of the config the opts of the call build
                 \* (core.WithMaxConcurrency; 0: not set)
    cbInputs,    \* inputs
    cbPc,        \* where Batch is: "loop" (spawning, then wg.Wait) or "done"
    cbI,         \* how many inputs the loop has passed
    cbTaskPc,    \* where the goroutine of each input is
    cbTaskRet,   \* the locals result, err of each goroutine
    cbSem,       \* how many values the channel sem holds
    cbWg,        \* the counter of the WaitGroup
    cbResults, cbErrs,  \* the slices results and errs
    cbFinished,         \* the indexes of the inputs in the order in which
                        \* their goroutines stored a result or an error
    cbOut, cbErr        \* what Batch returned

cbVars ==
    <<cbOptMax, cbCfgMax, cbInputs, cbPc, cbI, cbTaskPc, cbTaskRet, cbSem, cbWg,
      cbResults, cbErrs, cbFinished, cbOut, cbErr>>

\* =============================================== copilot.ChatModel.Stream
\* The events of a session that the handler of Stream acts on.  A turn ends
\* with SessionIdle, which the session may not reach.
SendingEvents == {"AssistantMessageDelta", "AssistantMessage", "SessionError"}

SessionScripts ==
    {q \in UNION {[1..n -> SendingEvents \cup {"SessionIdle"}] : n \in 0..MaxEvents} :
        \A i \in 1..(Len(q) - 1) : q[i] # "SessionIdle"}

VARIABLES
    csScript,       \* the events the session has still to emit, in order
    csCap,          \* the capacity of ch
    csLen,          \* how many chunks ch holds
    csChClosed,     \* close(ch) was executed
    csDone,         \* close(done) was executed
    csCtxDone,      \* ctx.Done() is closed
    csHandler,      \* the handler: "idle", or "send" at ch <- chunk
    csCleanup,      \* the cleanup goroutine: "select", "destroy", "close", "exit"
    csDestroyed,    \* session.Destroy() has returned: no event is dispatched any more
    csDestroyWaits, \* whether the SDK's Destroy waits for a handler call in
                    \* progress (the SDK is not part of the repository)
    csSendOnClosed  \* the handler executed ch <- chunk on the closed channel

csVars ==
    <<csScript, csCap, csLen, csChClosed, csDone, csCtxDone, csHandler, csCleanup,
      csDestroyed, csDestroyWaits, csSendOnClosed>>

\* ------------------------------------------------------------- agent state
VARIABLES
    optMaxIterations,         \* the n of WithMaxIterations(n), or Unset
    maxIterations,            \* AgentExecutor.maxIterations
    handleParsingErrors,      \* AgentExecutor.handleParsingErrors
    returnIntermediateSteps,  \* AgentExecutor.returnIntermediateSteps
    nCallbacks,               \* len(cfg.Callbacks); the handlers are 1..nCallbacks
    planner,                  \* which planner AgentExecutor.agent is
    cancelled,                \* ctx.Done() is closed
    pc,                       \* where Invoke is
    iterations,               \* the local iterations
    intermediateSteps,        \* the local intermediateSteps (the Step Log)
    pending,                  \* the actions of output.Actions not yet processed
    trace,                    \* every call Invoke has made, in order
    result, err               \* what Invoke returned

agentVars ==
    <<optMaxIterations, maxIterations, handleParsingErrors, returnIntermediateSteps,
      nCallbacks, planner, cancelled, pc, iterations, intermediateSteps, pending, trace, result, err>>

vars == <<agentVars, seqVars, parVars, brVars, batVars, stVars, mgrVars, cbVars, csVars>>

\* What the actions of one component leave alone.
nonAgentVars == <<seqVars, parVars, brVars, batVars, stVars, mgrVars, cbVars, csVars>>

nonSeqVars == <<agentVars, parVars, brVars, batVars, stVars, mgrVars, cbVars, csVars>>

nonParVars == <<agentVars, seqVars, brVars, batVars, stVars, mgrVars, cbVars, csVars>>

nonBranchVars == <<agentVars, seqVars, parVars, batVars, stVars, mgrVars, cbVars, csVars>>

nonBatchVars == <<agentVars, seqVars, parVars, brVars, stVars, mgrVars, cbVars, csVars>>

nonStreamVars == <<agentVars, seqVars, parVars, brVars, batVars, mgrVars, cbVars, csVars>>

nonManagerVars == <<agentVars, seqVars, parVars, brVars, batVars, stVars, cbVars, csVars>>

nonCopilotBatchVars == <<agentVars, seqVars, parVars, brVars, batVars, stVars, mgrVars, csVars>>

nonCopilotStreamVars == <<agentVars, seqVars, parVars, brVars, batVars, stVars, mgrVars, cbVars>>

\* ------------------------------------------------------- agent: pure parts
Unset == -1

\* NewAgentExecutor with or without WithMaxIterations(n).
NewAgentExecutor(opt) == IF opt = Unset THEN DefaultMaxIterations ELSE opt

\* toolMap[action.Tool]: the lookup is by exact name.
ToolKnown(name) == \E i \in 1..Len(ToolNames) : ToolNames[i] = name

\* AgentExecutor.availableToolNames.
availableToolNames == Join(ToolNames, <<", ">>)

\* The cancellation check is missing.
CtxDoneIgnored(c) == FALSE

\* select { case <-ctx.Done(): ...; default: } at the top of the loop body.
CtxDone(c) == c

\* The loop gives up one iteration early.
LoopConditionShort(it, max) == it + 1 < max

\* The loop runs one iteration too many.
LoopConditionLong(it, max) == it <= max

\* for iterations < e.maxIterations
LoopCondition(it, max) == it < max

\* One callback hook called on every handler of cfg.Callbacks, in list order.
Dispatch(ev, arg, n) == [h \in 1..n |-> [type |-> "cb", ev |-> ev, h |-> h, arg |-> arg]]

\* The single loop over cfg.Callbacks of the Finish branch: each handler gets
\* OnAgentFinish and then OnChainEnd before the next handler is visited.
FinishDispatch(res, n) ==
    [i \in 1..(2 * n) |->
        IF i % 2 = 1
        THEN [type |-> "cb", ev |-> "agent_finish", h |-> (i + 1) \div 2, arg |-> res]
        ELSE [type |-> "cb", ev |-> "chain_end", h |-> i \div 2, arg |-> res]]

\* Plan is given a window of the log: all but its oldest step.
PlanCallPruned(steps, input, ret) ==
    [type |-> "plan", steps |-> IF Len(steps) > 1 THEN Tail(steps) ELSE steps,
     input |-> input, ret |-> ret]

\* The call e.agent.Plan(ctx, intermediateSteps, input) and what it returned.
PlanCall(steps, input, ret) ==
    [type |-> "plan", steps |-> steps, input |-> input, ret |-> ret]

\* What Plan returns: (nil, err), an AgentOutput with a Finish, or one with Actions.
RetError(e) == [kind |-> "error", e |-> e]
RetFinish(f) == [kind |-> "finish", finish |-> f]
RetActions(as) == [kind |-> "actions", actions |-> as]

\* The last of the actions left is taken first.
NextActionLast(as) == as[Len(as)]

\* for _, action := range output.Actions: the first of the actions left.
NextAction(as) == Head(as)

\* The call tool.Run(ctx, action.ToolInput).
ToolCall(action) == [type |-> "tool", tool |-> action.tool, input |-> action.input]

\* The synthetic step does not say what failed.
ParsingErrorStepSilent(e) ==
    [action |-> [tool |-> <<"_error">>, input |-> <<>>, log |-> <<>>],
     observation |-> <<"Error. Please try again with valid output.">>]

\* The synthetic step appended for a planner failure.
ParsingErrorStep(e) ==
    [action |-> [tool |-> <<"_error">>, input |-> <<>>, log |-> e.msg],
     observation |-> <<"Error: ">> \o e.msg \o <<". Please try again with valid output.">>]

\* The observation does not list the available tools.
NotFoundStepNoList(action) ==
    [action |-> action,
     observation |-> <<"Tool ">> \o Quote(action.tool) \o <<" not found.">>]

\* The step appended for an action on an unregistered tool.
NotFoundStep(action) ==
    [action |-> action,
     observation |-> <<"Tool ">> \o Quote(action.tool)
                        \o <<" not found. Available tools: ">> \o availableToolNames]

\* The failure of a tool is dropped: the observation is the (empty) output.
ObservationOutputOnly(action, run) == run.out

\* The observation of a tool run: the output, or the failure as text.
Observation(action, run) ==
    IF run.err # NoErr
    THEN <<"Error executing tool ">> \o action.tool \o <<": ">> \o run.err.msg
    ELSE run.out

\* result := output.Finish.ReturnValues, with the Step Log stored under
\* "intermediate_steps" when returnIntermediateSteps is set.
FinishResult(rv, steps, withSteps) ==
    IF withSteps
    THEN Map([k \in DOMAIN rv \cup {"intermediate_steps"} |->
                 IF k = "intermediate_steps" THEN steps ELSE rv[k]])
    ELSE Map(rv)

IterationLimitError(max) ==
    NewError(<<"agent exceeded maximum iterations (">> \o Itoa(max) \o <<")">>)

PlanningError(e) == Wrap(<<"agent planning error: ">>, e)

\* ------------------------------------------------------------ agent: Init
InitAgent ==
    /\ optMaxIterations \in (0..MaxIter) \cup {Unset}
    /\ maxIterations = NewAgentExecutor(optMaxIterations)
    /\ planner \in (IF optMaxIterations = Unset THEN {"looping", "failing"} ELSE {"scripted"})
    /\ handleParsingErrors \in BOOLEAN
    /\ returnIntermediateSteps \in BOOLEAN
    /\ nCallbacks \in 0..MaxHandlers
    /\ cancelled = FALSE
    /\ pc = "start"
    /\ iterations = 0
    /\ intermediateSteps = <<>>
    /\ pending = <<>>
    /\ trace = <<>>
    /\ result = NilMap
    /\ err = NoErr

config ==
    <<optMaxIterations, maxIterations, handleParsingErrors, returnIntermediateSteps,
      nCallbacks, planner>>

\* --------------------------------------------------------- agent: actions
\* The caller cancels ctx while Invoke runs.
Cancel ==
    /\ pc # "done"
    /\ ~cancelled
    /\ cancelled' = TRUE
    /\ UNCHANGED <<config, pc, iterations, intermediateSteps, pending, trace, result, err, nonAgentVars>>

\* Invoke is entered: the options are applied and OnChainStart is dispatched.
InvokeStart ==
    /\ pc = "start"
    /\ trace' = trace \o Dispatch("chain_start", TheInput, nCallbacks)
    /\ pc' = "loop"
    /\ UNCHANGED <<config, cancelled, iterations, intermediateSteps, pending, result, err, nonAgentVars>>

\* The loop is entered with ctx done: return nil, ctx.Err().
CancelObserved ==
    /\ pc = "loop"
    /\ LoopCondition(iterations, maxIterations)
    /\ CtxDone(cancelled)
    /\ result' = NilMap
    /\ err' = Canceled
    /\ pc' = "done"
    /\ UNCHANGED <<config, cancelled, iterations, intermediateSteps, pending, trace, nonAgentVars>>

\* Plan fails.
PlanFails ==
    /\ pc = "loop"
    /\ LoopCondition(iterations, maxIterations)
    /\ ~CtxDone(cancelled)
    /\ \E e \in PlannerErrors(planner) :
          IF handleParsingErrors
          THEN /\ trace' = Append(trace, PlanCall(intermediateSteps, TheInput, RetError(e)))
               /\ intermediateSteps' = Append(intermediateSteps, ParsingErrorStep(e))
               /\ iterations' = iterations + 1
               /\ UNCHANGED <<pc, result, err>>
          ELSE /\ trace' = Append(trace, PlanCall(intermediateSteps, TheInput, RetError(e)))
                              \o Dispatch("chain_error", e, nCallbacks)
               /\ result' = NilMap
               /\ err' = PlanningError(e)
               /\ pc' = "done"
               /\ UNCHANGED <<iterations, intermediateSteps>>
    /\ UNCHANGED <<config, cancelled, pending, nonAgentVars>>

\* Plan returns a Finish.
PlanFinishes ==
    /\ pc = "loop"
    /\ LoopCondition(iterations, maxIterations)
    /\ ~CtxDone(cancelled)
    /\ \E f \in PlannerFinishes(planner) :
          LET res == FinishResult(f.rv, intermediateSteps, returnIntermediateSteps) IN
          /\ trace' = Append(trace, PlanCall(intermediateSteps, TheInput, RetFinish(f)))
                         \o FinishDispatch(res, nCallbacks)
          /\ result' = res
          /\ err' = NoErr
    /\ pc' = "done"
    /\ UNCHANGED <<config, cancelled, iterations, intermediateSteps, pending, nonAgentVars>>

\* Plan returns actions.
PlanActs ==
    /\ pc = "loop"
    /\ LoopCondition(iterations, maxIterations)
    /\ ~CtxDone(cancelled)
    /\ \E as \in PlannerActions(planner) :
          /\ trace' = Append(trace, PlanCall(intermediateSteps, TheInput, RetActions(as)))
          /\ pending' = as
    /\ pc' = "act"
    /\ UNCHANGED <<config, cancelled, iterations, intermediateSteps, result, err, nonAgentVars>>

\* The next action names no registered tool.
ActionUnknown ==
    /\ pc = "act"
    /\ pending # <<>>
    /\ ~ToolKnown(NextAction(pending).tool)
    /\ trace' = trace \o Dispatch("agent_action", NextAction(pending), nCallbacks)
    /\ intermediateSteps' = Append(intermediateSteps, NotFoundStep(NextAction(pending)))
    /\ pending' = Tail(pending)
    /\ UNCHANGED <<config, cancelled, pc, iterations, result, err, nonAgentVars>>

\* The next action names a registered tool: the tool is started.
ToolStart ==
    /\ pc = "act"
    /\ pending # <<>>
    /\ ToolKnown(NextAction(pending).tool)
    /\ trace' = (trace \o Dispatch("agent_action", NextAction(pending), nCallbacks)
                       \o Dispatch("tool_start", NextAction(pending), nCallbacks))
                  \o <<ToolCall(NextAction(pending))>>
    /\ pc' = "tool"
    /\ UNCHANGED <<config, cancelled, iterations, intermediateSteps, pending, result, err, nonAgentVars>>

\* tool.Run returns.
ToolReturn ==
    /\ pc = "tool"
    /\ LET action == NextAction(pending)
           run == ToolRun(action.tool, action.input)
       IN /\ trace' = trace \o (IF run.err # NoErr
                                THEN Dispatch("tool_error", run.err, nCallbacks)
                                ELSE Dispatch("tool_end", run.out, nCallbacks))
          /\ intermediateSteps' =
                Append(intermediateSteps,
                       [action |-> action, observation |-> Observation(action, run)])
    /\ pending' = Tail(pending)
    /\ pc' = "act"
    /\ UNCHANGED <<config, cancelled, iterations, result, err, nonAgentVars>>

\* All actions of the iteration are processed: iterations++.
EndIteration ==
    /\ pc = "act"
    /\ pending = <<>>
    /\ iterations' = iterations + 1
    /\ pc' = "loop"
    /\ UNCHANGED <<config, cancelled, intermediateSteps, pending, trace, result, err, nonAgentVars>>

\* The loop ends without a Finish.
LimitExceeded ==
    /\ pc = "loop"
    /\ ~LoopCondition(iterations, maxIterations)
    /\ trace' = trace \o Dispatch("chain_error", IterationLimitError(maxIterations), nCallbacks)
    /\ result' = NilMap
    /\ err' = IterationLimitError(maxIterations)
    /\ pc' = "done"
    /\ UNCHANGED <<config, cancelled, iterations, intermediateSteps, pending, nonAgentVars>>

\* The agent while the model follows another component.
AgentIdle ==
    /\ optMaxIterations = Unset
    /\ maxIterations = DefaultMaxIterations
    /\ handleParsingErrors = FALSE
    /\ returnIntermediateSteps = FALSE
    /\ nCallbacks = 0
    /\ planner = "scripted"
    /\ cancelled = FALSE
    /\ pc = "idle"
    /\ iterations = 0
    /\ intermediateSteps = <<>>
    /\ pending = <<>>
    /\ trace = <<>>
    /\ result = NilMap
    /\ err = NoErr

NextAgent ==
    \/ Cancel
    \/ InvokeStart
    \/ CancelObserved
    \/ PlanFails
    \/ PlanFinishes
    \/ PlanActs
    \/ ActionUnknown
    \/ ToolStart
    \/ ToolReturn
    \/ EndIteration
    \/ LimitExceeded

\* ------------------------------------------------------- Sequence.Invoke
\* The type parameter O of a Sequence built by Pipe2, Pipe3 or Pipe4: the last
\* unit's output type.
SeqOutType(ss) == OutType(ss[Len(ss)].unit)

\* The type parameter O of the Sequence: Pipe returns a *Sequence[any, any].
SeqO == IF seqBuilder = "Pipe" THEN "any" ELSE SeqOutType(seqSteps)

\* The Sequence is built, by a typed builder or by Pipe, and Invoke or Stream
\* is called with an input; Stream starts by calling Invoke: current = input.
InitSeq ==
    /\ seqBuilder \in {"typed", "Pipe"}
    /\ seqUnits \in (IF seqBuilder = "Pipe" THEN PipeLists ELSE UnitLists)
    /\ seqSteps = (IF seqBuilder = "Pipe" THEN Pipe(seqUnits) ELSE Build(seqUnits))
    /\ seqOp \in {"Invoke", "Stream"}
    /\ seqInput \in Inputs(InType(seqSteps[1].unit))
    /\ seqPc = "loop"
    /\ seqI = 0
    /\ current = seqInput
    /\ seqCalls = <<>>
    /\ seqOut = Zero(SeqO)
    /\ seqErr = NoErr
    /\ seqStream = NilIter

\* The sequence while the model follows another component.
SeqIdle ==
    /\ seqBuilder = "typed"
    /\ seqUnits = <<"add1", "double">>
    /\ seqSteps = Build(seqUnits)
    /\ seqOp = "Invoke"
    /\ seqInput = IntVal(0)
    /\ seqPc = "idle"
    /\ seqI = 0
    /\ current = IntVal(0)
    /\ seqCalls = <<>>
    /\ seqOut = Zero("int")
    /\ seqErr = NoErr
    /\ seqStream = NilIter

\* One pass of the loop over s.steps: st.invoke(ctx, current, opts...).
SeqStep ==
    /\ seqPc = "loop"
    /\ seqI < Len(seqSteps)
    /\ LET st == seqSteps[seqI + 1] IN
       \E r \in StepInvoke(st.unit, current) :
          /\ seqCalls' = Append(seqCalls, [step |-> seqI, via |-> "Invoke",
                                           input |-> current, ret |-> r])
          /\ IF r.err = Panic
             THEN /\ seqPc' = "panic"
                  /\ UNCHANGED <<current, seqI, seqOut, seqErr>>
             ELSE IF r.err # NoErr
             THEN /\ seqOut' = Zero(SeqO)
                  /\ seqErr' = StepError(seqI, st.name, r.err)
                  /\ seqPc' = "done"
                  /\ UNCHANGED <<current, seqI>>
             ELSE /\ current' = r.out
                  /\ seqI' = seqI + 1
                  /\ UNCHANGED <<seqPc, seqOut, seqErr>>
    /\ UNCHANGED <<seqBuilder, seqUnits, seqSteps, seqOp, seqInput, seqStream, nonSeqVars>>

\* The loop is over: the output is type-asserted and returned.
SeqReturn ==
    /\ seqPc = "loop"
    /\ seqI = Len(seqSteps)
    /\ LET f == FinalOutput(current, SeqO)
       IN /\ seqOut' = f.out
          /\ seqErr' = f.err
    /\ seqPc' = "done"
    /\ UNCHANGED <<seqBuilder, seqUnits, seqSteps, seqOp, seqInput, seqI, current, seqCalls,
                   seqStream, nonSeqVars>>

\* The chunks of the last step's own Stream are put on the channel.
SequenceStreamLastStep(ss, cur, out) == Iter(UnitStream(ss[Len(ss)].unit, cur))

\* Stream, after s.Invoke returned without an error: a channel of capacity 1
\* that holds the result as its only chunk and is closed.
SequenceStream(ss, cur, out) == Iter(<<out>>)

\* Stream returns: nil and the error of Invoke, or the iterator.
SeqStreamReturn ==
    /\ seqOp = "Stream"
    /\ seqPc = "done"
    /\ seqStream' = (IF seqErr # NoErr THEN NilIter
                     ELSE SequenceStream(seqSteps, current, seqOut))
    /\ seqPc' = "streamed"
    /\ UNCHANGED <<seqBuilder, seqUnits, seqSteps, seqOp, seqInput, seqI, current, seqCalls,
                   seqOut, seqErr, nonSeqVars>>

NextSeq ==
    \/ SeqStep
    \/ SeqReturn
    \/ SeqStreamReturn

\* ------------------------------------------------------- Parallel.Invoke
\* The set of the elements of a sequence.
Range(q) == {q[i] : i \in 1..Len(q)}

\* A Parallel is built and Invoke is called: the maps are empty, no goroutine
\* has been started.
InitPar ==
    /\ \E n \in 1..MaxBranches : parKeys = SubSeq(KeyNames, 1, n)
    /\ parBranches \in [Range(parKeys) -> ParUnits]
    /\ parInput \in ParInputs
    /\ parMax \in 0..MaxBranches
    /\ parPc = "loop"
    /\ parI = 0
    /\ taskPc = [k \in Range(parKeys) |-> "none"]
    /\ taskRet = [k \in Range(parKeys) |-> [out |-> Zero("any"), err |-> NoErr]]
    /\ sem = 0
    /\ wg = 0
    /\ results = EmptyMap
    /\ errs = EmptyMap
    /\ parCancel = "no"
    /\ parOut = NilMap
    /\ parErr = NoErr

\* The Parallel while the model follows another component.
ParIdle ==
    /\ parKeys = <<"a">>
    /\ parBranches = [k \in {"a"} |-> "add1"]
    /\ parInput = IntVal(0)
    /\ parMax = 0
    /\ parPc = "idle"
    /\ parI = 0
    /\ taskPc = [k \in {"a"} |-> "none"]
    /\ taskRet = [k \in {"a"} |-> [out |-> Zero("any"), err |-> NoErr]]
    /\ sem = 0
    /\ wg = 0
    /\ results = EmptyMap
    /\ errs = EmptyMap
    /\ parCancel = "no"
    /\ parOut = NilMap
    /\ parErr = NoErr

parConfig == <<parKeys, parBranches, parInput, parMax>>

\* The caller cancels ctx while Invoke runs.
ParCancel ==
    /\ parPc = "loop"
    /\ parCancel = "no"
    /\ parCancel' = IF parI = Len(parKeys) /\ wg > 0 THEN "join" ELSE "spawning"
    /\ UNCHANGED <<parConfig, parPc, parI, taskPc, taskRet, sem, wg, results, errs,
                   parOut, parErr, nonParVars>>

\* One pass of the loop over p.keys: wg.Add(1) and go func().
ParSpawn ==
    /\ parPc = "loop"
    /\ parI < Len(parKeys)
    /\ parI' = parI + 1
    /\ wg' = wg + 1
    /\ taskPc' = [taskPc EXCEPT ![parKeys[parI + 1]] = "acquire"]
    /\ UNCHANGED <<parConfig, parPc, taskRet, sem, results, errs, parCancel, parOut, parErr, nonParVars>>

\* sem <- struct{}{}: the send goes through when the channel has room.
TaskAcquire(k) ==
    /\ taskPc[k] = "acquire"
    /\ sem < SemCap(Len(parKeys), parMax)
    /\ sem' = sem + 1
    /\ taskPc' = [taskPc EXCEPT ![k] = "run"]
    /\ UNCHANGED <<parConfig, parPc, parI, taskRet, wg, results, errs, parCancel, parOut, parErr,
                   nonParVars>>

\* result, err := fn(ctx, input, opts...): the unit returns.
TaskRun(k) ==
    /\ taskPc[k] = "run"
    /\ taskRet' = [taskRet EXCEPT ![k] = UnitInvoke(parBranches[k], parInput)]
    /\ taskPc' = [taskPc EXCEPT ![k] = "store"]
    /\ UNCHANGED <<parConfig, parPc, parI, sem, wg, results, errs, parCancel, parOut, parErr, nonParVars>>

\* mu.Lock(); errs[key] = err or results[key] = result; mu.Unlock().
TaskStore(k) ==
    /\ taskPc[k] = "store"
    /\ IF taskRet[k].err # NoErr
       THEN /\ errs' = MapSet(errs, k, taskRet[k].err)
            /\ UNCHANGED results
       ELSE /\ results' = MapSet(results, k, taskRet[k].out)
            /\ UNCHANGED errs
    /\ taskPc' = [taskPc EXCEPT ![k] = "release"]
    /\ UNCHANGED <<parConfig, parPc, parI, taskRet, sem, wg, parCancel, parOut, parErr, nonParVars>>

\* The deferred func() { <-sem }().
TaskRelease(k) ==
    /\ taskPc[k] = "release"
    /\ sem' = sem - 1
    /\ taskPc' = [taskPc EXCEPT ![k] = "exit"]
    /\ UNCHANGED <<parConfig, parPc, parI, taskRet, wg, results, errs, parCancel, parOut, parErr,
                   nonParVars>>

\* The deferred wg.Done().
TaskDone(k) ==
    /\ taskPc[k] = "exit"
    /\ wg' = wg - 1
    /\ taskPc' = [taskPc EXCEPT ![k] = "done"]
    /\ UNCHANGED <<parConfig, parPc, parI, taskRet, sem, results, errs, parCancel, parOut, parErr,
                   nonParVars>>

\* wg.Wait() returns when the counter is zero; Invoke returns.
ParReturn ==
    /\ parPc = "loop"
    /\ parI = Len(parKeys)
    /\ wg = 0
    /\ \E r \in ParallelReturn(results, errs) :
          /\ parOut' = r.out
          /\ parErr' = r.err
    /\ parPc' = "done"
    /\ UNCHANGED <<parConfig, parI, taskPc, taskRet, sem, wg, results, errs, parCancel,
                   nonParVars>>

Acquire == \E k \in Range(parKeys) : TaskAcquire(k)
Run == \E k \in Range(parKeys) : TaskRun(k)
Store == \E k \in Range(parKeys) : TaskStore(k)
Release == \E k \in Range(parKeys) : TaskRelease(k)
Done == \E k \in Range(parKeys) : TaskDone(k)

NextPar ==
    \/ ParSpawn
    \/ Acquire
    \/ Run
    \/ Store
    \/ Release
    \/ Done
    \/ ParReturn

\* --------------------------------------------------------- Branch.Invoke
\* A Branch is built and Invoke is about to be called with an input.
InitBranch ==
    /\ brConds \in BranchConds
    /\ brDefault \in BranchUnits \cup {NoDefault}
    /\ brInput \in BranchInputs
    /\ brPc = "call"
    /\ brEvals = <<>>
    /\ brInvoked = <<>>
    /\ brOut = Zero("int")
    /\ brErr = NoErr

\* The Branch while the model follows another component.
BranchIdle ==
    /\ brConds = <<>>
    /\ brDefault = NoDefault
    /\ brInput = IntVal(0)
    /\ brPc = "idle"
    /\ brEvals = <<>>
    /\ brInvoked = <<>>
    /\ brOut = Zero("int")
    /\ brErr = NoErr

\* Invoke runs and returns.
BranchCall ==
    /\ brPc = "call"
    /\ LET r == BranchInvoke(brConds, brDefault, brInput)
       IN /\ brEvals' = r.evals
          /\ brInvoked' = r.invoked
          /\ brOut' = r.out
          /\ brErr' = r.err
    /\ brPc' = "done"
    /\ UNCHANGED <<brConds, brDefault, brInput, nonBranchVars>>

NextBranch == BranchCall

\* ----------------------------------------------------------------- Batch
\* The lists of at most n inputs.
BatchInputs(n) == UNION {[1..k -> BranchInputs] : k \in 0..n}

\* Batch is called: results := make([]O, len(inputs)).
InitBatch ==
    /\ batTarget \in BatchTargets
    /\ batInputs \in BatchInputs(MaxBatch)
    /\ batPc = "loop"
    /\ batI = 0
    /\ batResults = MakeSlice(Len(batInputs), TargetOutType(batTarget))
    /\ batCalls = <<>>
    /\ batOut = NilSlice
    /\ batErr = NoErr

\* Batch while the model follows another component.
BatchIdle ==
    /\ batTarget = LambdaOf("double")
    /\ batInputs = <<>>
    /\ batPc = "idle"
    /\ batI = 0
    /\ batResults = <<>>
    /\ batCalls = <<>>
    /\ batOut = NilSlice
    /\ batErr = NoErr

\* One pass of the loop over inputs.
BatchStep ==
    /\ batPc = "loop"
    /\ batI < Len(batInputs)
    /\ LET r == BatchCall(batTarget, batInputs[batI + 1])
       IN /\ batCalls' = Append(batCalls, [i |-> batI, input |-> batInputs[batI + 1]])
          /\ IF r.err # NoErr
             THEN /\ batOut' = NilSlice
                  /\ batErr' = BatchError(batTarget, batI, r.err)
                  /\ batPc' = "done"
                  /\ UNCHANGED <<batI, batResults>>
             ELSE /\ batResults' = SliceSet(batResults, batI, r.out)
                  /\ batI' = batI + 1
                  /\ UNCHANGED <<batPc, batOut, batErr>>
    /\ UNCHANGED <<batTarget, batInputs, nonBatchVars>>

\* The loop is over: return results, nil.
BatchReturn ==
    /\ batPc = "loop"
    /\ batI = Len(batInputs)
    /\ batOut' = Slice(batResults)
    /\ batErr' = NoErr
    /\ batPc' = "done"
    /\ UNCHANGED <<batTarget, batInputs, batI, batResults, batCalls, nonBatchVars>>

NextBatch ==
    \/ BatchStep
    \/ BatchReturn

\* -------------------------------------------------------- StreamIterator
\* NewStreamIterator(ch) has returned; the producer goroutine has started.
InitStream ==
    /\ stKind \in ProducerKinds
    /\ stScript \in Scripts(stKind)
    /\ stCap \in 1..MaxCap
    /\ stCh = <<>>
    /\ stChClosed = FALSE
    /\ stSent = 0
    /\ closed = FALSE
    /\ doneCloses = 0
    /\ drainPc = "none"
    /\ nextPc = "idle"
    /\ nextGhost = [afterClose |-> FALSE, queued |-> 0]
    /\ stResults = <<>>
    /\ nextStarts = 0
    /\ closeCalls = 0
    /\ sentAtClose = 0

\* No stream while the model follows another component.
StreamIdle ==
    /\ stKind = "closing"
    /\ stScript = <<>>
    /\ stCap = 1
    /\ stCh = <<>>
    /\ stChClosed = TRUE
    /\ stSent = 0
    /\ closed = FALSE
    /\ doneCloses = 0
    /\ drainPc = "none"
    /\ nextPc = "off"
    /\ nextGhost = [afterClose |-> FALSE, queued |-> 0]
    /\ stResults = <<>>
    /\ nextStarts = 0
    /\ closeCalls = 0
    /\ sentAtClose = 0

stConfig == <<stKind, stScript, stCap>>

\* The producer: ch <- chunk, which goes through when the channel has room.
ProducerSend ==
    /\ ~stChClosed
    /\ stSent < Len(stScript)
    /\ Len(stCh) < stCap
    /\ stCh' = Append(stCh, ChunkOf(stScript, stSent + 1))
    /\ stSent' = stSent + 1
    /\ UNCHANGED <<stConfig, stChClosed, closed, doneCloses, drainPc, nextPc, nextGhost,
                   stResults, nextStarts, closeCalls, sentAtClose, nonStreamVars>>

\* The producer has sent all its chunks: close(ch).
ProducerClose ==
    /\ ~stChClosed
    /\ stSent = Len(stScript)
    /\ stChClosed' = TRUE
    /\ UNCHANGED <<stConfig, stCh, stSent, closed, doneCloses, drainPc, nextPc, nextGhost,
                   stResults, nextStarts, closeCalls, sentAtClose, nonStreamVars>>

\* Next is called: under s.mu, a closed iterator returns (zero, false, nil);
\* otherwise Next goes on to receive from the channel.
NextStart ==
    /\ nextPc = "idle"
    /\ nextStarts < MaxNext
    /\ nextStarts' = nextStarts + 1
    /\ nextGhost' = [afterClose |-> closeCalls > 0, queued |-> Len(stCh)]
    /\ IF closed
       THEN /\ stResults' = Append(stResults, [res |-> Exhausted, at |-> nextGhost'])
            /\ UNCHANGED nextPc
       ELSE /\ nextPc' = "recv"
            /\ UNCHANGED stResults
    /\ UNCHANGED <<stConfig, stCh, stChClosed, stSent, closed, doneCloses, drainPc,
                   closeCalls, sentAtClose, nonStreamVars>>

\* chunk, ok := <-s.ch: a chunk, or !ok from the closed and empty channel.
NextRecv ==
    /\ nextPc = "recv"
    /\ \/ /\ stCh # <<>>
          /\ stCh' = Recv(stCh).rest
          /\ stResults' = Append(stResults, [res |-> NextResult(Recv(stCh).chunk),
                                             at |-> nextGhost])
       \/ /\ stCh = <<>>
          /\ stChClosed
          /\ stResults' = Append(stResults, [res |-> Exhausted, at |-> nextGhost])
          /\ UNCHANGED stCh
    /\ nextPc' = "idle"
    /\ UNCHANGED <<stConfig, stChClosed, stSent, closed, doneCloses, drainPc, nextGhost,
                   nextStarts, closeCalls, sentAtClose, nonStreamVars>>

\* Close is called, by the consumer or by another goroutine: under s.mu, the
\* first call sets closed, closes done and starts the goroutine that drains
\* the channel.
CloseCall ==
    /\ nextPc # "off"
    /\ closeCalls < MaxClose
    /\ closeCalls' = closeCalls + 1
    /\ IF CloseNeeded(closed)
       THEN /\ closed' = TRUE
            /\ doneCloses' = doneCloses + 1
            /\ drainPc' = "run"
            /\ sentAtClose' = stSent
       ELSE UNCHANGED <<closed, doneCloses, drainPc, sentAtClose>>
    /\ UNCHANGED <<stConfig, stCh, stChClosed, stSent, nextPc, nextGhost, stResults,
                   nextStarts, nonStreamVars>>

\* The draining goroutine: for range s.ch takes a chunk and drops it.
Drain ==
    /\ drainPc = "run"
    /\ stCh # <<>>
    /\ stCh' = Recv(stCh).rest
    /\ UNCHANGED <<stConfig, stChClosed, stSent, closed, doneCloses, drainPc, nextPc,
                   nextGhost, stResults, nextStarts, closeCalls, sentAtClose, nonStreamVars>>

\* The draining goroutine ends when the channel is closed and empty.
DrainExit ==
    /\ drainPc = "run"
    /\ stCh = <<>>
    /\ stChClosed
    /\ drainPc' = "exit"
    /\ UNCHANGED <<stConfig, stCh, stChClosed, stSent, closed, doneCloses, nextPc,
                   nextGhost, stResults, nextStarts, closeCalls, sentAtClose, nonStreamVars>>

NextStream ==
    \/ ProducerSend
    \/ ProducerClose
    \/ NextStart
    \/ NextRecv
    \/ CloseCall
    \/ Drain
    \/ DrainExit

\* ------------------------------------------------------ callbacks.Manager
\* NewManager(handlers...) has returned the root.
InitManager ==
    /\ mgrChain \in {<<[m |-> NewManager(hs), designated |-> <<>>, registered |-> FALSE]>> :
                        hs \in HandlerLists}
    /\ mgrLog = <<>>

\* No Manager while the model follows another component.
ManagerIdle ==
    /\ mgrChain = <<>>
    /\ mgrLog = <<>>

\* m.WithInheritableHandlers(h) on the innermost Manager, before a nested
\* execution derives its own from it.
ManagerRegister ==
    \E i \in {Len(mgrChain)}, h \in HandlerNames :
        /\ i >= 1
        /\ Len(mgrChain[i].m.inheritableHandlers) < MaxHandlers
        /\ mgrChain' = [mgrChain EXCEPT ![i].m = WithInheritableHandlers(@, <<h>>),
                                        ![i].registered = (i > 1)]
        /\ UNCHANGED <<mgrLog, nonManagerVars>>

\* A nested execution derives its Manager from the innermost one.
ManagerGetChild ==
    \E tag \in Tags :
        LET n == Len(mgrChain)
            parent == mgrChain[n]
        IN  /\ n >= 1
            /\ n < MaxDepth
            /\ mgrChain' = Append(mgrChain,
                   [m |-> GetChild(parent.m, tag),
                    designated |-> IF n = 1 THEN parent.m.inheritableHandlers
                                            ELSE parent.designated,
                    registered |-> FALSE])
            /\ UNCHANGED <<mgrLog, nonManagerVars>>

\* An event is dispatched on one of the Managers.
ManagerEvent ==
    \E i \in 1..Len(mgrChain), ev \in Events :
        /\ Len(mgrLog) < MaxDispatch
        /\ mgrLog' = Append(mgrLog, [depth |-> i, ev |-> ev,
                                     calls |-> ManagerDispatch(mgrChain[i].m, ev)])
        /\ UNCHANGED <<mgrChain, nonManagerVars>>

NextManager ==
    \/ ManagerRegister
    \/ ManagerGetChild
    \/ ManagerEvent

\* ------------------------------------------------ copilot.ChatModel.Batch
\* Batch is called: results and errs are made, no goroutine has been started.
InitCopilotBatch ==
    /\ cbOptMax \in (0..MaxItems) \cup {DefaultMaxConcurrency}
    /\ cbCfgMax \in 0..MaxItems
    /\ cbInputs \in UNION {[1..n -> Prompts] : n \in 0..MaxItems}
    /\ cbPc = "loop"
    /\ cbI = 0
    /\ cbTaskPc = [i \in 1..Len(cbInputs) |-> "none"]
    /\ cbTaskRet = [i \in 1..Len(cbInputs) |-> [out |-> NilMessage, err |-> NoErr]]
    /\ cbSem = 0
    /\ cbWg = 0
    /\ cbResults = [i \in 1..Len(cbInputs) |-> NilMessage]
    /\ cbErrs = [i \in 1..Len(cbInputs) |-> NoErr]
    /\ cbFinished = <<>>
    /\ cbOut = NilSlice
    /\ cbErr = NoErr

\* No Batch call while the model follows another component.
CopilotBatchIdle ==
    /\ cbOptMax = DefaultMaxConcurrency
    /\ cbCfgMax = 0
    /\ cbInputs = <<>>
    /\ cbPc = "idle"
    /\ cbI = 0
    /\ cbTaskPc = <<>>
    /\ cbTaskRet = <<>>
    /\ cbSem = 0
    /\ cbWg = 0
    /\ cbResults = <<>>
    /\ cbErrs = <<>>
    /\ cbFinished = <<>>
    /\ cbOut = NilSlice
    /\ cbErr = NoErr

cbConfig == <<cbOptMax, cbCfgMax, cbInputs>>

\* One pass of the loop over inputs: wg.Add(1) and go func(i, input).
CbSpawn ==
    /\ cbPc = "loop"
    /\ cbI < Len(cbInputs)
    /\ cbI' = cbI + 1
    /\ cbWg' = cbWg + 1
    /\ cbTaskPc' = [cbTaskPc EXCEPT ![cbI + 1] = "acquire"]
    /\ UNCHANGED <<cbConfig, cbPc, cbTaskRet, cbSem, cbResults, cbErrs, cbFinished, cbOut, cbErr,
                   nonCopilotBatchVars>>

\* sem <- struct{}{}: the send goes through when the channel has room.
CbTaskAcquire(i) ==
    /\ cbTaskPc[i] = "acquire"
    /\ cbSem < MaxConc(cbOptMax)
    /\ cbSem' = cbSem + 1
    /\ cbTaskPc' = [cbTaskPc EXCEPT ![i] = "invoke"]
    /\ UNCHANGED <<cbConfig, cbPc, cbI, cbTaskRet, cbWg, cbResults, cbErrs, cbFinished, cbOut, cbErr,
                   nonCopilotBatchVars>>

\* result, err := m.Invoke(ctx, msgs, opts...) returns.
CbTaskInvoke(i) ==
    /\ cbTaskPc[i] = "invoke"
    /\ cbTaskRet' = [cbTaskRet EXCEPT ![i] = ChatInvoke(cbInputs[i])]
    /\ cbTaskPc' = [cbTaskPc EXCEPT ![i] = "store"]
    /\ UNCHANGED <<cbConfig, cbPc, cbI, cbSem, cbWg, cbResults, cbErrs, cbFinished, cbOut, cbErr,
                   nonCopilotBatchVars>>

\* errs[idx] = fmt.Errorf(...) and return, or results[idx] = result.
CbTaskStore(i) ==
    /\ cbTaskPc[i] = "store"
    /\ IF cbTaskRet[i].err # NoErr
       THEN /\ cbErrs' = SliceSet(cbErrs, i - 1, ItemError(i - 1, cbTaskRet[i].err))
            /\ UNCHANGED cbResults
       ELSE /\ cbResults' = SliceSet(cbResults, i - 1, cbTaskRet[i].out)
            /\ UNCHANGED cbErrs
    /\ cbFinished' = Append(cbFinished, i)
    /\ cbTaskPc' = [cbTaskPc EXCEPT ![i] = "release"]
    /\ UNCHANGED <<cbConfig, cbPc, cbI, cbTaskRet, cbSem, cbWg, cbOut, cbErr,
                   nonCopilotBatchVars>>

\* The deferred func() { <-sem }().
CbTaskRelease(i) ==
    /\ cbTaskPc[i] = "release"
    /\ cbSem' = cbSem - 1
    /\ cbTaskPc' = [cbTaskPc EXCEPT ![i] = "exit"]
    /\ UNCHANGED <<cbConfig, cbPc, cbI, cbTaskRet, cbWg, cbResults, cbErrs, cbFinished, cbOut, cbErr,
                   nonCopilotBatchVars>>

\* The deferred wg.Done().
CbTaskDone(i) ==
    /\ cbTaskPc[i] = "exit"
    /\ cbWg' = cbWg - 1
    /\ cbTaskPc' = [cbTaskPc EXCEPT ![i] = "done"]
    /\ UNCHANGED <<cbConfig, cbPc, cbI, cbTaskRet, cbSem, cbResults, cbErrs, cbFinished, cbOut, cbErr,
                   nonCopilotBatchVars>>

\* wg.Wait() returns when the counter is zero; the first error of errs, or
\* the results.
CbReturn ==
    /\ cbPc = "loop"
    /\ cbI = Len(cbInputs)
    /\ cbWg = 0
    /\ IF FirstError(cbErrs) # NoErr
       THEN cbOut' = NilSlice /\ cbErr' = FirstError(cbErrs)
       ELSE cbOut' = Slice(cbResults) /\ cbErr' = NoErr
    /\ cbPc' = "done"
    /\ UNCHANGED <<cbConfig, cbI, cbTaskPc, cbTaskRet, cbSem, cbWg, cbResults, cbErrs,
                   cbFinished, nonCopilotBatchVars>>

CbAcquire == \E i \in 1..Len(cbInputs) : CbTaskAcquire(i)
CbInvoke == \E i \in 1..Len(cbInputs) : CbTaskInvoke(i)
CbStore == \E i \in 1..Len(cbInputs) : CbTaskStore(i)
CbRelease == \E i \in 1..Len(cbInputs) : CbTaskRelease(i)
CbDone == \E i \in 1..Len(cbInputs) : CbTaskDone(i)

NextCopilotBatch ==
    \/ CbSpawn
    \/ CbAcquire
    \/ CbInvoke
    \/ CbStore
    \/ CbRelease
    \/ CbDone
    \/ CbReturn

\* ----------------------------------------------- copilot.ChatModel.Stream
\* Stream has registered its handler, sent the prompt, started the cleanup
\* goroutine and returned the iterator.
InitCopilotStream ==
    /\ csScript \in SessionScripts
    /\ csCap \in 1..MaxCap
    /\ csLen = 0
    /\ csChClosed = FALSE
    /\ csDone = FALSE
    /\ csCtxDone = FALSE
    /\ csHandler = "idle"
    /\ csCleanup = "select"
    /\ csDestroyed = FALSE
    /\ csDestroyWaits \in BOOLEAN
    /\ csSendOnClosed = FALSE

\* No Copilot stream while the model follows another component.
CopilotStreamIdle ==
    /\ csScript = <<>>
    /\ csCap = 1
    /\ csLen = 0
    /\ csChClosed = TRUE
    /\ csDone = FALSE
    /\ csCtxDone = FALSE
    /\ csHandler = "idle"
    /\ csCleanup = "exit"
    /\ csDestroyed = TRUE
    /\ csDestroyWaits = FALSE
    /\ csSendOnClosed = FALSE

csConfig == <<csScript, csCap, csDestroyWaits>>

\* The session calls the handler with its next event: a delta, a message or
\* an error takes the handler to its send, SessionIdle closes done.
SessionEvent ==
    /\ csHandler = "idle"
    /\ csScript # <<>>
    /\ ~csDestroyed
    /\ csScript' = Tail(csScript)
    /\ IF Head(csScript) = "SessionIdle"
       THEN csDone' = TRUE /\ UNCHANGED csHandler
       ELSE csHandler' = "send" /\ UNCHANGED csDone
    /\ UNCHANGED <<csCap, csDestroyWaits, csLen, csChClosed, csCtxDone, csCleanup,
                   csDestroyed, csSendOnClosed, nonCopilotStreamVars>>

\* The handler's ch <- chunk: it goes through when ch has room, and panics
\* when ch is closed.
HandlerSend ==
    /\ csHandler = "send"
    /\ IF csChClosed
       THEN csSendOnClosed' = TRUE /\ UNCHANGED csLen
       ELSE /\ csLen < csCap
            /\ csLen' = csLen + 1
            /\ UNCHANGED csSendOnClosed
    /\ csHandler' = "idle"
    /\ UNCHANGED <<csConfig, csChClosed, csDone, csCtxDone, csCleanup, csDestroyed,
                   nonCopilotStreamVars>>

\* The caller cancels ctx.
CtxCancel ==
    /\ csCleanup # "exit"
    /\ ~csCtxDone
    /\ csCtxDone' = TRUE
    /\ UNCHANGED <<csConfig, csLen, csChClosed, csDone, csHandler, csCleanup, csDestroyed,
                   csSendOnClosed, nonCopilotStreamVars>>

\* The cleanup goroutine: select { case <-done: case <-ctx.Done(): }.
CleanupSelect ==
    /\ csCleanup = "select"
    /\ csDone \/ csCtxDone
    /\ csCleanup' = "destroy"
    /\ UNCHANGED <<csConfig, csLen, csChClosed, csDone, csCtxDone, csHandler, csDestroyed,
                   csSendOnClosed, nonCopilotStreamVars>>

\* session.Destroy() returns.
CleanupDestroy ==
    /\ csCleanup = "destroy"
    /\ csDestroyWaits => csHandler = "idle"
    /\ csDestroyed' = TRUE
    /\ csCleanup' = "close"
    /\ UNCHANGED <<csConfig, csLen, csChClosed, csDone, csCtxDone, csHandler,
                   csSendOnClosed, nonCopilotStreamVars>>

\* The deferred close(ch).
CleanupClose ==
    /\ csCleanup = "close"
    /\ csChClosed' = TRUE
    /\ csCleanup' = "exit"
    /\ UNCHANGED <<csConfig, csLen, csDone, csCtxDone, csHandler, csDestroyed,
                   csSendOnClosed, nonCopilotStreamVars>>

\* The consumer (Next, or the drain of Close) receives a chunk.
ConsumerReceive ==
    /\ csLen > 0
    /\ csLen' = csLen - 1
    /\ UNCHANGED <<csConfig, csChClosed, csDone, csCtxDone, csHandler, csCleanup,
                   csDestroyed, csSendOnClosed, nonCopilotStreamVars>>

NextCopilotStream ==
    \/ SessionEvent
    \/ HandlerSend
    \/ CtxCancel
    \/ CleanupSelect
    \/ CleanupDestroy
    \/ CleanupClose
    \/ ConsumerReceive

\* ------------------------------------------------------- specifications
\* One AgentExecutor.Invoke call.
InitA == InitAgent /\ SeqIdle /\ ParIdle /\ BranchIdle /\ BatchIdle /\ StreamIdle /\ ManagerIdle /\ CopilotBatchIdle /\ CopilotStreamIdle

SpecAgent == InitA /\ [][NextAgent]_vars

\* One Sequence.Invoke call.
InitS == InitSeq /\ AgentIdle /\ ParIdle /\ BranchIdle /\ BatchIdle /\ StreamIdle /\ ManagerIdle /\ CopilotBatchIdle /\ CopilotStreamIdle

SpecSeq == InitS /\ [][NextSeq]_vars

\* One Branch.Invoke call.
InitB == InitBranch /\ AgentIdle /\ SeqIdle /\ ParIdle /\ BatchIdle /\ StreamIdle /\ ManagerIdle /\ CopilotBatchIdle /\ CopilotStreamIdle

\* One Batch call on a Sequence, a Lambda or a Branch.
InitBt == InitBatch /\ AgentIdle /\ SeqIdle /\ ParIdle /\ BranchIdle /\ StreamIdle /\ ManagerIdle /\ CopilotBatchIdle /\ CopilotStreamIdle

SpecBatch == InitBt /\ [][NextBatch]_vars

SpecBranch == InitB /\ [][NextBranch]_vars

\* One Parallel.Invoke call.
InitP == InitPar /\ AgentIdle /\ SeqIdle /\ BranchIdle /\ BatchIdle /\ StreamIdle /\ ManagerIdle /\ CopilotBatchIdle /\ CopilotStreamIdle

\* One stream: its producer, the consumer's Next and Close calls, the drain.
InitSt == InitStream /\ AgentIdle /\ SeqIdle /\ ParIdle /\ BranchIdle /\ BatchIdle /\ ManagerIdle /\ CopilotBatchIdle /\ CopilotStreamIdle

SpecStream == InitSt /\ [][NextStream]_vars

\* The Go scheduler lets the producer and the draining goroutine run whenever
\* they can take a step; nothing makes the consumer call Next or Close.
SpecStreamFair ==
    SpecStream /\ WF_vars(ProducerSend) /\ WF_vars(ProducerClose)
               /\ WF_vars(Drain) /\ WF_vars(DrainExit) /\ WF_vars(NextRecv)

SpecPar == InitP /\ [][NextPar]_vars

\* The Go scheduler lets every goroutine that can take a step take one.
SpecParFair == SpecPar /\ WF_vars(NextPar)

\* One Parallel.Invoke call whose ctx the caller may cancel at any time.
NextParCtx ==
    \/ ParCancel
    \/ NextPar

SpecParCtx == InitP /\ [][NextParCtx]_vars

\* One root Manager and the Managers nested executions derive from it.
InitM == InitManager /\ AgentIdle /\ SeqIdle /\ ParIdle /\ BranchIdle /\ BatchIdle /\ StreamIdle /\ CopilotBatchIdle /\ CopilotStreamIdle

SpecManager == InitM /\ [][NextManager]_vars

\* One Batch call on the Copilot chat model.
InitCb == InitCopilotBatch /\ AgentIdle /\ SeqIdle /\ ParIdle /\ BranchIdle /\ BatchIdle /\ StreamIdle /\ ManagerIdle /\ CopilotStreamIdle

SpecCopilotBatch == InitCb /\ [][NextCopilotBatch]_vars

\* One Stream call on the Copilot chat model, from its return on.
InitCs == InitCopilotStream /\ AgentIdle /\ SeqIdle /\ ParIdle /\ BranchIdle /\ BatchIdle /\ StreamIdle /\ ManagerIdle /\ CopilotBatchIdle

SpecCopilotStream == InitCs /\ [][NextCopilotStream]_vars

\* ================================================= what a run has done
IsPlan(e) == e.type = "plan"
IsTool(e) == e.type = "tool"

\* The Plan calls and the tool runs of the run, in order.
PlanCalls == SelectSeq(trace, IsPlan)
ToolCalls == SelectSeq(trace, IsTool)

\* The last k entries of a sequence.
Suffix(s, k) == SubSeq(s, Len(s) - k + 1, Len(s))

\* The actions the given Plan calls returned, in order.
RECURSIVE ReturnedActions(_)
ReturnedActions(pcs) ==
    IF pcs = <<>> THEN <<>>
    ELSE (IF Head(pcs).ret.kind = "actions" THEN Head(pcs).ret.actions ELSE <<>>)
            \o ReturnedActions(Tail(pcs))

AllRegistered(as) == \A i \in 1..Len(as) : ToolKnown(as[i].tool)

\* Every Plan call so far returned a non-empty action list.
OnlyActionsSoFar ==
    \A i \in 1..Len(PlanCalls) :
        PlanCalls[i].ret.kind = "actions" /\ PlanCalls[i].ret.actions # <<>>

\* ------------------------------------------------------------------ C1
\* C1: when the planner returned non-empty lists of actions on registered tools
\* on its first k calls and a Finish on call k+1, Invoke has made exactly those
\* k+1 Plan calls (it is not cut short before call k+1 while k < maxIterations
\* and ctx is live, and no Plan call follows the Finish), has run the tool of
\* each returned action once, in order and with its input, and has returned the
\* Finish's return values (with the Step Log under "intermediate_steps" when so
\* configured) and a nil error.
C1_Scenario ==
    LET n == Len(PlanCalls) IN
    /\ n >= 1
    /\ PlanCalls[n].ret.kind = "finish"
    /\ \A i \in 1..(n - 1) :
          /\ PlanCalls[i].ret.kind = "actions"
          /\ PlanCalls[i].ret.actions # <<>>
          /\ AllRegistered(PlanCalls[i].ret.actions)

C1_FinishReturned ==
    LET n == Len(PlanCalls)
        f == PlanCalls[n].ret.finish
        acts == ReturnedActions(PlanCalls)
    IN /\ pc = "done"
       /\ err = NoErr
       /\ ~result.isNil
       /\ \A k \in DOMAIN f.rv : result.m[k] = f.rv[k]
       /\ (DOMAIN result.m) \ (DOMAIN f.rv)
             = (IF returnIntermediateSteps THEN {"intermediate_steps"} ELSE {})
       /\ ToolCalls = [i \in 1..Len(acts) |-> ToolCall(acts[i])]

C1_FinishAfterActions ==
    /\ C1_Scenario => C1_FinishReturned
    /\ \A i \in 1..(Len(PlanCalls) - 1) : PlanCalls[i].ret.kind # "finish"
    /\ (pc = "done" /\ OnlyActionsSoFar /\ ~cancelled) => Len(PlanCalls) >= maxIterations

C1_Witness ==
    /\ C1_Scenario
    /\ pc = "done"
    /\ Len(PlanCalls) = 3
    /\ Len(ToolCalls) = 3
    /\ returnIntermediateSteps

\* ------------------------------------------------------------------ C2
\* The run is over, the planner was called and never returned a Finish or failed.
C2_Scenario == pc = "done" /\ Len(PlanCalls) >= 1 /\ OnlyActionsSoFar

C2_LimitOutcome ==
    /\ Len(PlanCalls) = maxIterations
    /\ err = IterationLimitError(maxIterations)
    /\ result = NilMap
    /\ Len(trace) >= nCallbacks
    /\ Suffix(trace, nCallbacks) = Dispatch("chain_error", err, nCallbacks)

\* C2 as claimed: for a planner that never returns a Finish and never fails,
\* Invoke makes exactly maxIterations Plan calls, notifies the callbacks of a
\* chain error and returns the iteration-limit error and no result.
C2_AlwaysReachesLimit == C2_Scenario => C2_LimitOutcome

\* C2 as amended: the same, unless ctx was found canceled at the start of an
\* iteration, and then fewer than maxIterations Plan calls were made; in no
\* run are more than maxIterations Plan calls made, and maxIterations is 15
\* when WithMaxIterations was not given.
C2_LimitUnlessCanceled ==
    /\ C2_Scenario =>
          \/ C2_LimitOutcome
          \/ err = Canceled /\ Len(PlanCalls) < maxIterations
    /\ Len(PlanCalls) <= maxIterations
    /\ optMaxIterations = Unset => maxIterations = 15
    /\ optMaxIterations # Unset => maxIterations = optMaxIterations

C2_Witness ==
    /\ C2_Scenario
    /\ C2_LimitOutcome
    /\ optMaxIterations = Unset
    /\ ~cancelled
    /\ nCallbacks = 2

\* ------------------------------------------------------------------ C3
\* A step of the log made for an action on an unregistered tool.
IsNotFoundStep(st) == ~ToolKnown(st.action.tool) /\ st.action.tool # <<"_error">>

\* Some Plan call was given the first i steps of the log.
PlanCallAfter(i) == \E j \in 1..Len(PlanCalls) : Len(PlanCalls[j].steps) >= i

\* C3 as claimed: an action on an unregistered tool is always followed by the
\* next Plan call.
C3_NextPlanAlwaysOccurs ==
    pc = "done" =>
        \A i \in 1..Len(intermediateSteps) :
            IsNotFoundStep(intermediateSteps[i]) => PlanCallAfter(i)

\* The step Invoke takes on an action that names no registered tool.
C3_UnknownActionStep ==
    (pc = "act" /\ pending # <<>> /\ ~ToolKnown(Head(pending).tool)
        /\ cancelled' = cancelled)
    => /\ pc' = "act"
       /\ err' = NoErr
       /\ pending' = Tail(pending)
       /\ ToolCalls' = ToolCalls
       /\ intermediateSteps' # intermediateSteps
       /\ Len(intermediateSteps') = Len(intermediateSteps) + 1
       /\ IsPrefix(intermediateSteps, intermediateSteps')

\* Every step of the log for an unregistered tool names the requested tool and
\* every registered tool in its observation; and once the run is over the next
\* Plan call was made unless the run ended at the iteration limit or on a
\* canceled ctx.
C3_ObservedAndContinued ==
    /\ \A i \in 1..Len(intermediateSteps) :
          LET st == intermediateSteps[i] IN
          IsNotFoundStep(st) =>
              /\ Contains(st.observation, st.action.tool)
              /\ \A t \in 1..Len(ToolNames) : Contains(st.observation, ToolNames[t])
              /\ pc = "done" =>
                    \/ PlanCallAfter(i)
                    \/ err = IterationLimitError(maxIterations)
                    \/ err = Canceled
    /\ \A k \in 1..Len(ToolCalls) : ToolKnown(ToolCalls[k].tool)

\* C3 as amended: an action on an unregistered tool raises no error and runs no
\* tool; one step is appended whose observation names the requested tool and
\* all registered tools, the remaining actions follow, and the next Plan call
\* is made unless the iteration budget is used up or ctx is found canceled.
C3_UnknownToolAbsorbed == []C3_ObservedAndContinued /\ [][C3_UnknownActionStep]_vars

C3_Witness ==
    /\ pc = "done"
    /\ \E i \in 1..Len(intermediateSteps) :
          /\ IsNotFoundStep(intermediateSteps[i])
          /\ PlanCallAfter(i + 1)
    /\ Len(ToolCalls) >= 1

\* ------------------------------------------------------------------ C4
IsKnownStep(st) == ToolKnown(st.action.tool)

\* The steps of the log made by tool runs, in order.
KnownSteps == SelectSeq(intermediateSteps, IsKnownStep)

\* The tool runs that have returned.
CompletedRuns == Len(ToolCalls) - (IF pc = "tool" THEN 1 ELSE 0)

\* Around the tool run at trace[i]: tool-start to every handler just before it
\* and, once it has returned, tool-end to every handler (on success) or
\* tool-error to every handler (on failure) just after it.
C4_EventsAround(i) ==
    LET call == trace[i]
        run == ToolRun(call.tool, call.input)
        returned == ~(pc = "tool" /\ i = Len(trace))
    IN /\ i > nCallbacks
       /\ \A h \in 1..nCallbacks :
             LET e == trace[i - nCallbacks - 1 + h] IN
             e.type = "cb" /\ e.ev = "tool_start" /\ e.h = h /\ e.arg.tool = call.tool
       /\ returned =>
             /\ Len(trace) >= i + nCallbacks
             /\ \A h \in 1..nCallbacks :
                   LET e == trace[i + h] IN
                   /\ e.type = "cb"
                   /\ e.h = h
                   /\ e.ev = (IF run.err = NoErr THEN "tool_end" ELSE "tool_error")
                   /\ e.arg = (IF run.err = NoErr THEN run.out ELSE run.err)

IsToolOutcome(e) == e.type = "cb" /\ e.ev \in {"tool_end", "tool_error"}

\* The k-th tool run made the k-th step of the log that names a registered
\* tool: run with the action's input, observed as the output or as the failure.
C4_StepOf(k) ==
    LET st == KnownSteps[k]
        call == ToolCalls[k]
        run == ToolRun(call.tool, call.input)
    IN /\ call.tool = st.action.tool
       /\ call.input = st.action.input
       /\ run.err = NoErr => st.observation = run.out
       /\ run.err # NoErr =>
             Contains(st.observation, run.err.msg) /\ Contains(st.observation, call.tool)

C4_RunsAndSteps ==
    /\ \A i \in 1..Len(trace) : trace[i].type = "tool" => C4_EventsAround(i)
    /\ Len(SelectSeq(trace, IsToolOutcome)) = nCallbacks * CompletedRuns
    /\ Len(KnownSteps) = CompletedRuns
    /\ \A k \in 1..CompletedRuns : C4_StepOf(k)
    /\ pc = "tool" => pending # <<>> /\ ToolCalls[Len(ToolCalls)] = ToolCall(Head(pending))

\* The step Invoke takes when a tool run returns: the loop goes on with the
\* next action, whether the run failed or not.
C4_ToolReturnStep ==
    (pc = "tool" /\ cancelled' = cancelled)
    => /\ pc' = "act"
       /\ err' = NoErr
       /\ pending' = Tail(pending)
       /\ Len(intermediateSteps') = Len(intermediateSteps) + 1
       /\ IsPrefix(intermediateSteps, intermediateSteps')

\* C4: every action on a registered tool gets tool-start, one run of the tool
\* with the action's raw input, then tool-end or tool-error (never both), and
\* exactly one step whose observation is the output or a text of the failure;
\* a failing run never ends Invoke: the loop goes on.
C4_ToolFailureAbsorbed == []C4_RunsAndSteps /\ [][C4_ToolReturnStep]_vars

C4_Witness ==
    /\ pc = "done"
    /\ nCallbacks = 2
    /\ \E k \in 1..(Len(ToolCalls) - 1) :
          ToolRun(ToolCalls[k].tool, ToolCalls[k].input).err # NoErr
    /\ Len(PlanCalls) >= 2

\* ------------------------------------------------------------------ C5
\* Every Plan call so far failed.
OnlyFailuresSoFar == \A i \in 1..Len(PlanCalls) : PlanCalls[i].ret.kind = "error"

\* The step Invoke takes when Plan fails.
C5_PlanFailureStep ==
    LET n == Len(PlanCalls')
        e == PlanCalls'[n].ret.e
        last == intermediateSteps'[Len(intermediateSteps')]
    IN (n = Len(PlanCalls) + 1 /\ PlanCalls'[n].ret.kind = "error")
       => /\ ToolCalls' = ToolCalls
          /\ handleParsingErrors =>
                /\ Len(intermediateSteps') = Len(intermediateSteps) + 1
                /\ IsPrefix(intermediateSteps, intermediateSteps')
                /\ Contains(last.observation, e.msg)
                /\ iterations' = iterations + 1
                /\ pc' = "loop"
                /\ err' = NoErr
                /\ trace' = Append(trace, PlanCalls'[n])
          /\ ~handleParsingErrors =>
                /\ intermediateSteps' = intermediateSteps
                /\ pc' = "done"
                /\ result' = NilMap
                /\ err' = PlanningError(e)
                /\ trace' = Append(trace, PlanCalls'[n]) \o Dispatch("chain_error", e, nCallbacks)

\* Without tolerance a failed Plan call is the last thing the run did but for
\* the chain-error events; with or without it the iterations counted are the
\* Plan calls that did not end the run.
C5_AfterFailure ==
    /\ ~handleParsingErrors =>
          \A i \in 1..Len(trace) :
              (trace[i].type = "plan" /\ trace[i].ret.kind = "error")
              => /\ pc = "done"
                 /\ \A j \in (i + 1)..Len(trace) : trace[j].type = "cb"
    /\ pc = "loop" => iterations = Len(PlanCalls)

\* A planner that always fails, with tolerance: the run is over.
C5_AlwaysFailing ==
    pc = "done" /\ handleParsingErrors /\ Len(PlanCalls) >= 1 /\ OnlyFailuresSoFar

C5_LimitOutcome ==
    /\ Len(PlanCalls) = maxIterations
    /\ err = IterationLimitError(maxIterations)
    /\ Len(intermediateSteps) = maxIterations

\* C5 as claimed: with tolerance a planner that always fails causes exactly
\* maxIterations Plan calls and then the iteration-limit error.
C5_AlwaysFailingReachesLimit == C5_AlwaysFailing => C5_LimitOutcome

\* C5 as amended: with tolerance each Plan failure appends one synthetic step
\* holding the failure, counts as one iteration and the loop goes on, so that a
\* planner that always fails causes exactly maxIterations Plan calls and the
\* iteration-limit error unless ctx is found canceled first; without tolerance
\* the first failure dispatches chain-error and ends the run with the planning
\* error, with no further Plan call and no tool run.
C5_PlannerFailure ==
    /\ [](C5_AfterFailure /\ (C5_AlwaysFailing => (C5_LimitOutcome \/ err = Canceled)))
    /\ [][C5_PlanFailureStep]_vars

C5_Witness ==
    /\ C5_AlwaysFailing
    /\ C5_LimitOutcome
    /\ optMaxIterations = Unset

\* ------------------------------------------------------------------ C6
\* An iteration begins with ctx canceled: Invoke returns ctx.Err() at once,
\* with no Plan call, tool run or callback.
C6_CanceledAtLoopTop ==
    (pc = "loop" /\ cancelled /\ iterations < maxIterations)
    => /\ pc' = "done"
       /\ err' = Canceled
       /\ result' = NilMap
       /\ trace' = trace
       /\ intermediateSteps' = intermediateSteps

\* The cancellation error is only ever returned from the top of the loop.
C6_OnlyAtLoopTop == (err' = Canceled /\ err # Canceled) => (pc = "loop" /\ cancelled)

\* Between the actions of an iteration and during a tool run Invoke does not
\* return, canceled or not.
C6_NoAbortInIteration == pc \in {"act", "tool"} => (pc' # "done" /\ err' = NoErr)

\* C6: cancellation is observed only at the start of an iteration, where it
\* ends the call at once with the cancellation error; never between the actions
\* of an iteration or during a tool call.
C6_CancellationAtBoundary ==
    /\ [][C6_CanceledAtLoopTop]_vars
    /\ [][C6_OnlyAtLoopTop]_vars
    /\ [][C6_NoAbortInIteration]_vars

C6_Witness ==
    /\ pc = "done"
    /\ err = Canceled
    /\ Len(PlanCalls) = 2
    /\ Len(ToolCalls) = 3

\* ------------------------------------------------------------------ C7
\* C7: when the planner returns a Finish, the agent-finish event goes to all
\* handlers in registration order, then the chain-end event goes to all
\* handlers in registration order, nothing else follows the Plan call, and the
\* Finish's values are returned.
C7_FinishThenChainEnd ==
    (pc = "done" /\ err = NoErr)
    => /\ Len(trace) > 2 * nCallbacks
       /\ trace[Len(trace) - 2 * nCallbacks].type = "plan"
       /\ trace[Len(trace) - 2 * nCallbacks].ret.kind = "finish"
       /\ ~result.isNil
       /\ Suffix(trace, 2 * nCallbacks)
             = Dispatch("agent_finish", result, nCallbacks)
                  \o Dispatch("chain_end", result, nCallbacks)

\* ------------------------------------------------------------------ C8
\* Every Plan call was given the original input and a log that extends the
\* log given to every earlier Plan call, and the log of the run extends them all.
C8_PlanCallsSeePrefixes ==
    \A j \in 1..Len(PlanCalls) :
        /\ PlanCalls[j].input = TheInput
        /\ IsPrefix(PlanCalls[j].steps, intermediateSteps)
        /\ \A i \in 1..j : IsPrefix(PlanCalls[i].steps, PlanCalls[j].steps)

\* The log only grows by appending, and a Plan call is given the whole log.
C8_AppendOnlyStep ==
    /\ IsPrefix(intermediateSteps, intermediateSteps')
    /\ Len(PlanCalls') > Len(PlanCalls) =>
          PlanCalls'[Len(PlanCalls')].steps = intermediateSteps

\* C8: the Step Log only grows by appending, every Plan call is given the
\* complete log so far and the original input, so that the log given to an
\* earlier Plan call is a prefix of the log given to every later one.
C8_StepLogAppendOnly == []C8_PlanCallsSeePrefixes /\ [][C8_AppendOnlyStep]_vars

C8_Witness ==
    /\ Len(PlanCalls) = 3
    /\ Len(PlanCalls[2].steps) = 2
    /\ Len(PlanCalls[3].steps) = 3
    /\ PlanCalls[3].steps[1] # PlanCalls[3].steps[2]

\* ------------------------------------------------------------------ C9
\* The function a unit computes.
Fn(u, x) == UnitInvoke(u, x).out

\* The units that fail on no input.
NeverFails(u) == u \in {"add1", "double", "toString", "length", "spell"}

\* h(g(f(x))) for the units the pipeline was built from, in construction order.
Composition ==
    LET f == seqUnits[1]
        g == seqUnits[2]
    IN CASE Len(seqUnits) = 2 -> Fn(g, Fn(f, seqInput))
         [] Len(seqUnits) = 3 -> Fn(seqUnits[3], Fn(g, Fn(f, seqInput)))
         [] Len(seqUnits) = 4 -> Fn(seqUnits[4], Fn(seqUnits[3], Fn(g, Fn(f, seqInput))))

\* C9: Invoke on a Sequence built by Pipe2, Pipe3 or Pipe4 from units that
\* never fail returns the composition of the units in construction order and
\* a nil error.
C9_SequenceComposes ==
    (seqPc = "done" /\ seqBuilder = "typed"
        /\ \A i \in 1..Len(seqUnits) : NeverFails(seqUnits[i]))
    => (seqErr = NoErr /\ seqOut = Composition)

C9_Witness ==
    /\ seqPc = "done"
    /\ seqUnits = <<"add1", "double", "toString">>
    /\ seqInput = IntVal(2)
    /\ seqOut = StrVal(<<"6">>)

\* ------------------------------------------------------------------ C10
\* Whether the k-th call of a step failed.
CallFailed(k) == seqCalls[k].ret.err \notin {NoErr, Panic}

\* C10: the steps are executed in order, each at most once; when step i fails
\* it is the last one executed (steps 0..i once each, none after it) and Invoke
\* returns the zero value and an error that wraps the step's error and carries
\* the index i and the name of the step.
C10_FailingStepStops ==
    LET n == Len(seqCalls) IN
    /\ n <= Len(seqSteps)
    /\ \A k \in 1..n : seqCalls[k].step = k - 1
    /\ \A k \in 1..(n - 1) : ~CallFailed(k)
    /\ (n >= 1 /\ CallFailed(n)) =>
          /\ seqPc \in {"done", "streamed"}
          /\ seqOut = Zero(SeqO)
          /\ seqErr.kind = "wrapped"
          /\ seqErr.cause = seqCalls[n].ret.err
          /\ IsPrefix(<<"step ">> \o Itoa(n - 1) \o <<" (">> \o seqSteps[n].name, seqErr.msg)
    /\ (seqPc \in {"done", "streamed"} /\ seqErr # NoErr) => (n >= 1 /\ CallFailed(n))
    /\ (seqPc \in {"done", "streamed"} /\ seqErr = NoErr) => n = Len(seqSteps)

C10_Witness ==
    /\ seqPc = "done"
    /\ seqErr # NoErr
    /\ Len(seqSteps) = 4
    /\ Len(seqCalls) = 2
    /\ seqSteps[2].unit = "positive"

\* ------------------------------------------------------------------ C11
\* C11: when Sequence.Stream returns an iterator, every step but the last was
\* evaluated through its Invoke, the last step was not, and the iterator holds
\* the chunks the last step's own Stream emits for the value it was handed:
\* k chunks of the last step are k chunks of the Sequence, in order.
C11_StreamsLastStep ==
    (seqOp = "Stream" /\ seqPc = "streamed" /\ seqErr = NoErr) =>
        LET n == Len(seqSteps) IN
        /\ \A k \in 1..Len(seqCalls) :
              seqCalls[k].via = "Invoke" => seqCalls[k].step < n - 1
        /\ seqStream = SequenceStreamLastStep(seqSteps, seqCalls[Len(seqCalls)].input, seqOut)

\* ------------------------------------------------------------------ C12
\* Whether the value handed to the k-th executed step has the type it accepts.
WellTyped(k) == seqCalls[k].input.t = InType(seqSteps[k].unit)

\* C12: in a Sequence built by Pipe no step is ever executed with a value of
\* a type it does not accept, and when the value step i returned does not fit
\* step i+1, Invoke returns a TypeMismatch error that names step i+1.
C12_PipeChecksBoundaries ==
    seqBuilder = "Pipe" =>
        /\ \A k \in 1..Len(seqCalls) : WellTyped(k)
        /\ (seqPc \in {"done", "streamed"} /\ seqI < Len(seqSteps)
              /\ current.t # InType(seqSteps[seqI + 1].unit)) =>
                 /\ seqErr.kind = "TypeMismatch"
                 /\ Contains(seqErr.msg, seqSteps[seqI + 1].name)

\* ------------------------------------------------------------------ C13
\* Every registered unit returns without an error on the input.
C13_AllSucceed ==
    \A k \in Range(parKeys) : UnitInvoke(parBranches[k], parInput).err = NoErr

\* Each registered name mapped to the result of its own unit.
C13_Mapping == [k \in Range(parKeys) |-> Fn(parBranches[k], parInput)]

C13_Result ==
    (parPc = "done" /\ C13_AllSucceed) => (parErr = NoErr /\ parOut = Map(C13_Mapping))

\* Until Invoke has returned, Invoke or one of its goroutines can take a step.
C13_NoDeadlock == parPc = "loop" => ENABLED NextPar

\* C13: when all N registered units succeed, Parallel.Invoke never deadlocks,
\* eventually returns, and returns a nil error and a map whose keys are exactly
\* the N registered names, each with its own unit's result, whatever the
\* concurrency limit (not set, 1, smaller than N, N).
C13_ParallelCompletes ==
    /\ [](C13_Result /\ C13_NoDeadlock)
    /\ C13_AllSucceed => <>(parPc = "done")

C13_Witness ==
    /\ parPc = "done"
    /\ Len(parKeys) = 3
    /\ parMax = 1
    /\ parErr = NoErr
    /\ parBranches["b"] = "positive"
    /\ parOut = Map([k \in {"a", "b", "c"} |-> IF k = "b" THEN IntVal(2) ELSE IntVal(3)])

\* ------------------------------------------------------------------ C14
\* The entries whose unit fails on the input.
C14_Failing == {k \in Range(parKeys) : UnitInvoke(parBranches[k], parInput).err # NoErr}

\* C14: when at least one entry fails, Parallel.Invoke returns the nil map and
\* one error, which wraps the error of an entry that failed and carries that
\* entry's name; until it returns, and when it returns, the caller has no map:
\* the results of the entries that succeeded are never handed out.
C14_AllOrNothing ==
    /\ parPc # "done" => (parOut = NilMap /\ parErr = NoErr)
    /\ (parPc = "done" /\ C14_Failing # {}) =>
          /\ parOut = NilMap
          /\ \E k \in C14_Failing :
                /\ parErr.kind = "wrapped"
                /\ parErr.cause = UnitInvoke(parBranches[k], parInput).err
                /\ Contains(parErr.msg, Quote(<<k>>))

C14_Witness ==
    /\ parPc = "done"
    /\ Len(parKeys) = 3
    /\ Cardinality(C14_Failing) = 1
    /\ DOMAIN results = Range(parKeys) \ C14_Failing
    /\ parOut = NilMap
    /\ parErr # NoErr

\* ------------------------------------------------------------------ C15
\* The lowest index of a condition that holds of the input (0: none does).
C15_First ==
    IF \E i \in 1..Len(brConds) : CondHolds(brConds[i].cond, brInput)
    THEN CHOOSE i \in 1..Len(brConds) :
            /\ CondHolds(brConds[i].cond, brInput)
            /\ \A j \in 1..(i - 1) : ~CondHolds(brConds[j].cond, brInput)
    ELSE 0

\* C15: Branch.Invoke evaluates the conditions in list order up to the first
\* that holds and none after it, and invokes exactly one unit, on the input:
\* the unit of that condition, or the default unit when no condition holds;
\* with no condition holding and no default it invokes no unit and returns
\* the no-branch-matched error.
C15_FirstMatchWins ==
    brPc = "done" =>
        LET f == C15_First IN
        /\ brEvals = [i \in 1..(IF f > 0 THEN f ELSE Len(brConds)) |-> i]
        /\ f > 0 =>
              /\ brInvoked = <<brConds[f].unit>>
              /\ <<brOut, brErr>> = <<UnitInvoke(brConds[f].unit, brInput).out,
                                      UnitInvoke(brConds[f].unit, brInput).err>>
        /\ (f = 0 /\ brDefault # NoDefault) =>
              /\ brInvoked = <<brDefault>>
              /\ <<brOut, brErr>> = <<UnitInvoke(brDefault, brInput).out,
                                      UnitInvoke(brDefault, brInput).err>>
        /\ (f = 0 /\ brDefault = NoDefault) =>
              /\ brInvoked = <<>>
              /\ brErr = NoBranchError
              /\ brOut = Zero("int")

\* A later condition holds too, and is neither evaluated nor taken.
C15_Witness ==
    /\ brPc = "done"
    /\ Len(brConds) = 2
    /\ CondHolds(brConds[1].cond, brInput)
    /\ CondHolds(brConds[2].cond, brInput)
    /\ brConds[1].unit # brConds[2].unit
    /\ brEvals = <<1>>
    /\ brInvoked = <<brConds[1].unit>>

\* ------------------------------------------------------------------ C16
\* Invoke of the runnable Batch was called on.
C16_Invoke(x) ==
    CASE batTarget.kind = "Lambda" -> LambdaInvoke(batTarget.fn, x)
      [] batTarget.kind = "Sequence" -> SequenceInvoke(Build(batTarget.units), x)
      [] batTarget.kind = "Branch" -> BranchInvoke(batTarget.conds, batTarget.def, x)

\* The 1-based positions of the inputs on which Invoke fails.
C16_Failing == {k \in 1..Len(batInputs) : C16_Invoke(batInputs[k]).err # NoErr}

\* The first of them.
C16_FirstFailing == CHOOSE k \in C16_Failing : \A j \in C16_Failing : k <= j

C16_WitnessStop ==
    /\ batPc = "done"
    /\ batTarget.kind = "Sequence"
    /\ Len(batInputs) = 3
    /\ Len(batCalls) = 2
    /\ batOut = NilSlice

\* ------------------------------------------------------------------ C17
\* The producer emits values only: v1..vn, then it closes the channel.
C17_ValuesOnly == \A i \in 1..Len(stScript) : stScript[i] = "value"

\* What the k-th Next call returns for such a producer.
C17_Expected(k) ==
    IF k <= Len(stScript) THEN [val |-> IntVal(k), ok |-> TRUE, err |-> NoErr]
    ELSE Exhausted

\* C17: for a producer that emits v1..vn and closes the channel, the Next
\* calls of a consumer (that does not call Close) return (v1, true, nil) ..
\* (vn, true, nil) in emission order and then (zero, false, nil); and on every
\* iterator a Next call that follows one that returned (zero, false, nil)
\* returns (zero, false, nil).
C17_InOrderThenExhausted ==
    /\ (C17_ValuesOnly /\ closeCalls = 0) =>
          \A k \in 1..Len(stResults) : stResults[k].res = C17_Expected(k)
    /\ \A k \in 1..(Len(stResults) - 1) :
          stResults[k].res = Exhausted => stResults[k + 1].res = Exhausted

C17_Witness ==
    /\ C17_ValuesOnly
    /\ Len(stScript) = 2
    /\ closeCalls = 0
    /\ Len(stResults) = 4
    /\ stResults[2].res = [val |-> IntVal(2), ok |-> TRUE, err |-> NoErr]
    /\ stResults[3].res = Exhausted
    /\ stResults[4].res = Exhausted

\* ------------------------------------------------------------------ C18
\* C18: a Next call that returns an error returns it as (zero, false, err),
\* and every Next call after it on the same iterator returns (zero, false,
\* nil): no value and no second error follows an error.
C18_ErrorIsTerminal ==
    \A k \in 1..Len(stResults) :
        stResults[k].res.err # NoErr =>
            /\ stResults[k].res.ok = FALSE
            /\ stResults[k].res.val = Zero("int")
            /\ \A j \in (k + 1)..Len(stResults) : stResults[j].res = Exhausted

\* ------------------------------------------------------------------ C19
\* A Close call on an iterator that is closed changes nothing.
C19_SecondCloseNoOp ==
    (closeCalls' = closeCalls + 1 /\ closed) =>
        UNCHANGED <<stCh, stChClosed, stSent, closed, doneCloses, drainPc, nextPc, stResults>>

\* A Close call returns in one step of its own, whatever the producer, the
\* channel and a Next call in progress are doing.
C19_CloseNeverBlocks == (nextPc # "off" /\ closeCalls < MaxClose) => ENABLED CloseCall

\* A Next call that started after a Close call had returned.
C19_AfterCloseExhausted ==
    \A k \in 1..Len(stResults) : stResults[k].at.afterClose => stResults[k].res = Exhausted

\* C19: Close may be called any number of times, the calls after the first
\* changing nothing (the iterator is closed, done is closed once, one drain);
\* Close never waits; and every Next call that starts after a Close call has
\* returned returns (zero, false, nil), also with chunks left on the channel.
C19_CloseIdempotent ==
    /\ [](C19_CloseNeverBlocks /\ C19_AfterCloseExhausted /\ doneCloses <= 1)
    /\ [][C19_SecondCloseNoOp]_vars

C19_Witness ==
    /\ closeCalls = 2
    /\ \E k \in 1..Len(stResults) :
          /\ stResults[k].at.afterClose
          /\ stResults[k].at.queued > 0
          /\ stResults[k].res = Exhausted

\* ------------------------------------------------------------------ C20
\* C20: once Close has been called the producer eventually gets out of a send
\* it is blocked in and eventually terminates (it closes the channel when it
\* returns), and it is the cancellation signal that stops it: checking the
\* signal between emissions, it completes at most the one send that was under
\* way when Close returned.
C20_CloseStopsProducer ==
    /\ closed ~> stChClosed
    /\ [](closed => stSent <= sentAtClose + 1)

\* ------------------------------------------------------------------- C21
\* The consumer is between two calls and has never called Close: if it walks
\* away now, no Next and no Close will follow.
C21_ConsumerMayAbandon == ~closed /\ nextPc = "idle" /\ drainPc = "none"

\* The producer is at ch <- chunk with the channel full.
C21_BlockedOnSend == ~stChClosed /\ stSent < Len(stScript) /\ Len(stCh) = stCap

\* C21: when the consumer abandons the stream without calling Close, the
\* producer is not leaked: it is never left blocked on a send that only the
\* consumer could let through, and it eventually closes the channel and
\* returns, however many chunks it has left.
C21_AbandonedProducerTerminates ==
    /\ [](C21_ConsumerMayAbandon => ~C21_BlockedOnSend)
    /\ ([](~closed) => <>stChClosed)

\* Once the producer is blocked with the consumer gone, only a call of the
\* consumer changes that.
C21_BlockedForGood ==
    [][(C21_ConsumerMayAbandon /\ C21_BlockedOnSend /\ ~(NextStart \/ CloseCall))
        => (C21_ConsumerMayAbandon /\ C21_BlockedOnSend)']_vars

\* ------------------------------------------------------------------- C22
\* The handlers an event was dispatched to, in call order.
Called(e) == [i \in 1..Len(e.calls) |-> e.calls[i].h]

\* No WithInheritableHandlers call was made on a derived Manager down to depth d.
NoReRegistration(d) == \A j \in 2..d : ~mgrChain[j].registered

\* C22: a Manager derived with GetChild at any depth (child, grandchild, ...)
\* dispatches every event to exactly the handlers that were designated as
\* inheritable on the Manager it descends from, in registration order,
\* without WithInheritableHandlers being called again at the nested levels.
C22_DescendantsInherit ==
    \A k \in 1..Len(mgrLog) :
        LET e == mgrLog[k]
        IN  (e.depth > 1 /\ NoReRegistration(e.depth))
                => Called(e) = mgrChain[e.depth].designated

\* The same for children only (depth 2).
C22_ChildrenInherit ==
    \A k \in 1..Len(mgrLog) :
        LET e == mgrLog[k]
        IN  e.depth = 2 => Called(e) = mgrChain[2].designated

\* ------------------------------------------------------------------- C23
\* The inputs whose Invoke call is running.
CbRunning == {i \in 1..Len(cbInputs) : cbTaskPc[i] = "invoke"}

\* The limit of the config passed to the Batch call, 5 when it is not set.
C23_Limit == IF cbCfgMax > 0 THEN cbCfgMax ELSE DefaultMaxConcurrency

\* C23: the Copilot chat model's Batch never has more than L of its Invoke
\* calls running at once, L being the concurrency limit of the config passed
\* to the call, and 5 when that limit is not set.
C23_BoundedByConfig == Cardinality(CbRunning) <= C23_Limit

\* The bound the calls do respect: the MaxConcurrency of the model's Options.
C23_BoundedByOptions == Cardinality(CbRunning) <= MaxConc(cbOptMax)

\* ------------------------------------------------------------------- C24
\* The inputs on which Invoke fails.
C24_Failing == {i \in 1..Len(cbInputs) : ChatInvoke(cbInputs[i]).err # NoErr}

C24_Lowest == CHOOSE i \in C24_Failing : \A j \in C24_Failing : i <= j

\* C24: whatever the order in which the item tasks complete, Batch returns
\* only after all of them have finished; when every item succeeds,
\* results[i] is the response to inputs[i] for every i; when an item fails,
\* Batch returns no results and the error of the failing item of lowest
\* index.
C24_IndexCorrespondence ==
    cbPc = "done" =>
        /\ \A i \in 1..Len(cbInputs) : cbTaskPc[i] = "done"
        /\ IF C24_Failing = {}
           THEN /\ cbErr = NoErr
                /\ cbOut = Slice([i \in 1..Len(cbInputs) |-> ChatInvoke(cbInputs[i]).out])
           ELSE /\ cbOut = NilSlice
                /\ cbErr = ItemError(C24_Lowest - 1, ChatInvoke(cbInputs[C24_Lowest]).err)

\* Two different inputs succeeded, the second before the first.
C24_Witness ==
    /\ cbPc = "done"
    /\ cbInputs = <<"a", "b">>
    /\ cbFinished = <<2, 1>>
    /\ cbOut = Slice(<<AIMessage(<<"reply to ", "a">>), AIMessage(<<"reply to ", "b">>)>>)

\* Two inputs failed, the second before the first.
C24_WitnessFailure ==
    /\ cbPc = "done"
    /\ cbInputs = <<"bad", "bad">>
    /\ cbFinished = <<2, 1>>
    /\ cbErr # NoErr

\* ------------------------------------------------------------------- C27
\* The entries whose unit is executing, and those whose goroutine holds a
\* slot of the semaphore.
C27_Executing == {k \in Range(parKeys) : taskPc[k] = "run"}

C27_Holding == {k \in Range(parKeys) : taskPc[k] \in {"run", "store", "release"}}

\* C27: during one Parallel.Invoke with a concurrency limit c > 0, never more
\* than c units execute at once: each goroutine holds one slot of the
\* semaphore from before its unit starts until after it has returned, with
\* an error or not, and every slot is free again when Invoke returns.  With
\* no limit (0) the number of entries is the only bound.
C27_BoundedConcurrency ==
    /\ sem = Cardinality(C27_Holding)
    /\ C27_Executing \subseteq C27_Holding
    /\ parMax > 0 => Cardinality(C27_Executing) <= parMax
    /\ Cardinality(C27_Executing) <= Len(parKeys)
    /\ parPc = "done" => sem = 0

\* The limit 2 holds back the third of three entries, one of which fails.
C27_Witness ==
    /\ Len(parKeys) = 3
    /\ parMax = 2
    /\ parInput = IntVal(0)
    /\ parBranches["a"] = "positive"
    /\ Cardinality(C27_Executing) = 2
    /\ \E k \in Range(parKeys) : taskPc[k] = "acquire"

\* Without a limit all three entries execute at once.
C27_WitnessUnbounded ==
    /\ Len(parKeys) = 3
    /\ parMax = 0
    /\ Cardinality(C27_Executing) = 3

\* ------------------------------------------------------------------- C25
\* C25: Parallel.Invoke checks ctx at the branch join: when ctx is canceled
\* while Invoke waits for its goroutines, Invoke returns a cancellation
\* error.
C25_JoinObservesCancel ==
    (parPc = "done" /\ parCancel = "join") => parErr = Canceled

\* What Invoke returns does not depend on ctx at all.
C25_CancelIgnored ==
    parPc = "done" =>
        parErr \in {r.err : r \in ParallelReturn(results, errs)} /\ parErr # Canceled

\* ------------------------------------------------------------------- C26
\* Where the last Plan call is in the trace.
C26_LastPlanAt ==
    CHOOSE p \in 1..Len(trace) :
        IsPlan(trace[p]) /\ \A q \in (p + 1)..Len(trace) : ~IsPlan(trace[q])

\* What Invoke does for one action up to the start of the tool run, and from
\* the return of the tool run on.
C26_Before(a) ==
    Dispatch("agent_action", a, nCallbacks)
        \o (IF ToolKnown(a.tool)
            THEN Dispatch("tool_start", a, nCallbacks) \o <<ToolCall(a)>>
            ELSE <<>>)

C26_After(a) ==
    IF ~ToolKnown(a.tool) THEN <<>>
    ELSE IF ToolRun(a.tool, a.input).err # NoErr
         THEN Dispatch("tool_error", ToolRun(a.tool, a.input).err, nCallbacks)
         ELSE Dispatch("tool_end", ToolRun(a.tool, a.input).out, nCallbacks)

\* The calls of actions processed one after the other.
RECURSIVE C26_OneByOne(_)
C26_OneByOne(as) ==
    IF as = <<>> THEN <<>>
    ELSE (C26_Before(Head(as)) \o C26_After(Head(as))) \o C26_OneByOne(Tail(as))

\* While the actions of an iteration are processed: j of them are done, the
\* trace since the Plan call is the calls of those j, one after the other,
\* and the start of action j+1 when its tool is running; the Step Log has
\* grown by the steps of those j actions, in order.
C26_InOrder ==
    pc \in {"act", "tool"} =>
        LET call == trace[C26_LastPlanAt]
            as == call.ret.actions
            j == Len(as) - Len(pending)
        IN  /\ call.ret.kind = "actions"
            /\ j >= 0
            /\ pending = SubSeq(as, j + 1, Len(as))
            /\ SubSeq(trace, C26_LastPlanAt + 1, Len(trace))
                  = C26_OneByOne(SubSeq(as, 1, j))
                       \o (IF pc = "tool" THEN C26_Before(as[j + 1]) ELSE <<>>)
            /\ IsPrefix(call.steps, intermediateSteps)
            /\ Len(intermediateSteps) = Len(call.steps) + j
            /\ \A i \in 1..j : intermediateSteps[Len(call.steps) + i].action = as[i]

\* The steps of the Step Log that stand for actions, in order, are the
\* actions the Plan calls returned, in order.
C26_StepActions ==
    LET IsActionStep(st) == st.action.tool # <<"_error">>
        steps == SelectSeq(intermediateSteps, IsActionStep)
    IN  IsPrefix([i \in 1..Len(steps) |-> steps[i].action], ReturnedActions(PlanCalls))

\* A tool run starts only when no tool run is in progress.
C26_NoOverlap ==
    Len(SelectSeq(trace', IsTool)) > Len(ToolCalls)
        => /\ pc # "tool"
           /\ pc' = "tool"
           /\ Len(SelectSeq(trace', IsTool)) = Len(ToolCalls) + 1

\* C26: within one iteration the returned actions are processed strictly one
\* at a time in the order returned: the agent-action event, the tool run and
\* the step append of action j are complete before the agent-action event of
\* action j+1; the Step Log holds the steps in action order and no two tool
\* runs of an Invoke overlap.
C26_ActionsOneAtATime ==
    [](C26_InOrder /\ C26_StepActions) /\ [][C26_NoOverlap]_vars

\* Both actions of <<ActUnknown, ActDiv>> are processed, with two handlers.
C26_Witness ==
    /\ pc = "act"
    /\ pending = <<>>
    /\ nCallbacks = 2
    /\ trace[C26_LastPlanAt].ret.actions = <<ActUnknown, ActDiv>>
    /\ Len(intermediateSteps) >= 2
    /\ intermediateSteps[Len(intermediateSteps)].action = ActDiv
    /\ intermediateSteps[Len(intermediateSteps) - 1].action = ActUnknown

\* ------------------------------------------------------------------- C28
\* How many times handler h was called with event ev.
C28_Count(ev, h) ==
    Cardinality({i \in 1..Len(trace) :
                    trace[i].type = "cb" /\ trace[i].ev = ev /\ trace[i].h = h})

C28_OpenedAndClosed ==
    \A h \in 1..nCallbacks :
        /\ C28_Count("chain_start", h) = 1
        /\ C28_Count("chain_end", h) = (IF err = NoErr THEN 1 ELSE 0)
        /\ C28_Count("chain_error", h) = (IF err = NoErr THEN 0 ELSE 1)

\* C28: every Invoke delivers to each registered handler exactly one
\* chain-start event and, before it returns, exactly one closing event:
\* chain-end when it returns a result, chain-error when it returns an error,
\* whatever the cause of the error (planner failure, iteration limit or
\* cancellation).
C28_ChainEventsPaired == pc = "done" => C28_OpenedAndClosed

\* The same for every return but the one on a canceled ctx.
C28_PairedUnlessCanceled == (pc = "done" /\ err # Canceled) => C28_OpenedAndClosed

\* ------------------------------------------------------------------- C29
\* A Next call returns while the iterator is closed: Close has returned.
C29_ReturnsAfterClose == closed /\ Len(stResults') = Len(stResults) + 1

\* C29: once Close has returned no Next call returns a chunk value, also not
\* a Next call that was waiting for the producer when Close was called from
\* another goroutine: it returns (zero, false, nil), not a value the producer
\* emits afterwards.
C29_NoValueAfterClose ==
    [][C29_ReturnsAfterClose => ~stResults'[Len(stResults')].res.ok]_vars

\* The same for the Next calls that start after Close has returned.
C29_NoValueWhenStartedAfterClose ==
    [][(C29_ReturnsAfterClose /\ nextPc = "idle") => ~stResults'[Len(stResults')].res.ok]_vars

\* ------------------------------------------------------------------- C30
\* C30: in the Copilot chat model's Stream the session event handler never
\* sends a chunk on ch after the cleanup goroutine has closed it, for every
\* interleaving of session events, cancellation of ctx and cleanup: no send
\* on a closed channel is reachable.
C30_NoSendOnClosed == ~csSendOnClosed

\* The same when session.Destroy waits for the handler call in progress.
C30_NoSendOnClosedIfDestroyWaits == csDestroyWaits => C30_NoSendOnClosed

\* When ctx stays live the channel is closed only after SessionIdle, the last
\* event of the turn: no send follows.
C30_NoSendOnClosedIfCtxLive == ~csCtxDone => C30_NoSendOnClosed

====
